---- MODULE Spec2Model ----
(***************************************************************************)
(* Smart-transaction solvers: the event listener, the timer executor, the  *)
(* two solver policies (CleanApp scheduled batch, limit order), the shared *)
(* transaction guard and the reports pool.                                 *)
(*                                                                         *)
(* Two binaries are modelled; `program` says which one is running:         *)
(*   "cleanapp_scheduler"  src/cleanapp_scheduler/src                      *)
(*   "limit_order"         src/limit_order/src                             *)
(*                                                                         *)
(* Every tokio task is a process whose position is pc[e].  A step of the   *)
(* model runs a task from one await that can interleave with other tasks   *)
(* to the next.  The reports pool mutex is never held across an await      *)
(* other than its own acquisition, so each of its critical sections is one *)
(* step.                                                                   *)
(***************************************************************************)
EXTENDS Integers, Sequences, FiniteSets, TLC

----------------------------------------------------------------------------
(* Bounds of the model *)

\* executor tasks the listener may spawn
MaxExecutors == 2
\* the wall clock runs over 0..MaxTime (seconds)
MaxTime == 1
\* POST /report requests served while executors run
MaxReports == 2
\* POST /report requests served to the pool on its own
MaxIngests == 3
\* width of the amounts: U256 scaled down to AmountBits bits
AmountBits == 2
\* largest clock value and trigger time tried on exec_solver_step alone
PollMaxTime == 3
\* the wall clock of a single executor's run goes over 0..MaxRunTime
MaxRunTime == 3
\* events the chain emits while the listener has no stream
MaxMissed == 1
\* the order's price and the price the chain answers go over 0..MaxPrice
MaxPrice == 11
\* the records of the stats map of a GET /stats query
MaxRecords == 3

----------------------------------------------------------------------------
(* Program constants *)

\* const MAX_BATCH_SIZE: usize = 100
MAX_BATCH_SIZE == 100
\* #[arg(long, default_value_t = 1)] tick_secs
TickSecs == 1
\* mpsc::channel(100), the stats channel
STATS_CHANNEL_CAPACITY == 100
\* stream.take(10)
TAKE_LIMIT == 10

U256_MAX == 2 ^ AmountBits - 1

Executors == 1..MaxExecutors
Accounts == {1, 2}
Amounts == {1, 2}
\* The body of POST /report may carry a schedule key beside account and amount.
ScheduleKeys == {"K1", "K2"}
NoOne == 0

EmptyPool == [a \in {} |-> 0]

----------------------------------------------------------------------------
(* solver.rs: results and errors *)

Ok(v) == [ok |-> TRUE, val |-> v]
Err(kind, text) == [ok |-> FALSE, kind |-> kind, text |-> text]

\* impl Display for SolverError
SolverError_to_string(err) ==
    IF err.kind = "ParamError" THEN "Parameter error, \"" \o err.text \o "\""
    ELSE IF err.kind = "ExecError" THEN "Execution error, " \o err.text
    ELSE "UnknownSelector: " \o err.text

SolverResponse(succeeded, message, remaining_secs) ==
    [succeeded |-> succeeded, message |-> message, remaining_secs |-> remaining_secs]

----------------------------------------------------------------------------
(* stats.rs: the record an executor sends on the stats channel *)

TimerExecutorStats(status, transaction_status, message, remaining) ==
    [status |-> status, transaction_status |-> transaction_status,
     message |-> message, remaining |-> remaining]

----------------------------------------------------------------------------
(* The cron crate, as far as the solver uses it.  A schedule is given by  *)
(* its period in seconds; "0 0 0 1 1 * 2000" parses but has no occurrence *)
(* after 2000.                                                            *)

CronEverySecond == "* * * * * *"
CronEveryOther  == "*/2 * * * * *"
CronYear2000    == "0 0 0 1 1 * 2000"
CronGarbage     == "every day"

\* Schedule::from_str
Schedule_from_str(s) ==
    IF s \in {CronEverySecond, CronEveryOther, CronYear2000}
    THEN Ok(s) ELSE Err("ParseError", s)

\* schedule.upcoming(Utc).take(1): the first occurrence strictly after `clock`
Schedule_upcoming(s, clock) ==
    IF s = CronEverySecond THEN <<clock + 1>>
    ELSE IF s = CronEveryOther THEN <<2 * (clock \div 2) + 2>>
    ELSE <<>>

----------------------------------------------------------------------------
(* cleanapp_scheduler/src/solvers/cleanapp_scheduler.rs *)

SolverData(name, value) == [name |-> name, value |-> value]

\* The `for ad in &event.data` loop of CleanAppSchedulerSolver::new, from
\* entry i on; ret carries schedule_string, trigger_time, schedule_extracted.
RECURSIVE ExtractParams(_, _, _, _)
ExtractParams(data, i, ret, clock) ==
    IF i > Len(data) THEN ret
    ELSE LET ad == data[i] IN
         IF ad.name = "CRON"
         THEN LET parsed == Schedule_from_str(ad.value)
                  up == Schedule_upcoming(ad.value, clock)
              IN  IF parsed.ok
                  THEN ExtractParams(data, i + 1,
                         [schedule_string |-> ad.value,
                          trigger_time |-> IF up = <<>> THEN ret.trigger_time
                                           ELSE Ok(up[1]),
                          schedule_extracted |-> TRUE], clock)
                  ELSE ExtractParams(data, i + 1,
                         [schedule_string |-> ad.value,
                          trigger_time |-> Err("ParamError", "Error parsing CRON parameter"),
                          schedule_extracted |-> ret.schedule_extracted], clock)
         ELSE ExtractParams(data, i + 1, ret, clock)

CleanAppSchedulerSolver_new(data, clock) ==
    LET ret == ExtractParams(data, 1,
                 [schedule_string |-> "",
                  trigger_time |-> Err("ParamError", "Missing CRON parameter"),
                  schedule_extracted |-> FALSE], clock)
    IN  IF ~ret.schedule_extracted
        THEN Err("ParamError", "Missing schedule, the solver won't run")
        ELSE Ok([schedule_string |-> ret.schedule_string,
                 trigger_time |-> ret.trigger_time])

\* Solver::schedule_time
schedule_time(solver) == solver.trigger_time

\* exec_solver_step that triggers at the trigger time without a look at the pool
exec_solver_step_ignores_pool(trigger_time, clock, reports) ==
    IF ~trigger_time.ok THEN trigger_time
    ELSE IF ~clock.ok THEN Err("ExecError", "Solver execution error")
    ELSE IF trigger_time.val <= clock.val
         THEN Ok(SolverResponse(TRUE, "Triggered at " \o ToString(clock.val), 0))
         ELSE IF Cardinality(DOMAIN reports) >= MAX_BATCH_SIZE
              THEN Ok(SolverResponse(TRUE, "Triggered at " \o ToString(clock.val)
                                      \o " as the batch is complete", 0))
              ELSE Ok(SolverResponse(FALSE,
                        "Not triggered yet, the schedule time wasn't reached yet",
                        trigger_time.val - clock.val))

\* exec_solver_step that compares the pool size with `>`
exec_solver_step_cap_off_by_one(trigger_time, clock, reports) ==
    IF ~trigger_time.ok THEN trigger_time
    ELSE IF ~clock.ok THEN Err("ExecError", "Solver execution error")
    ELSE IF trigger_time.val <= clock.val
         THEN IF DOMAIN reports # {}
              THEN Ok(SolverResponse(TRUE, "Triggered at " \o ToString(clock.val), 0))
              ELSE Ok(SolverResponse(FALSE, "Not triggered, the pool is empty", 0))
         ELSE IF Cardinality(DOMAIN reports) > MAX_BATCH_SIZE
              THEN Ok(SolverResponse(TRUE, "Triggered at " \o ToString(clock.val)
                                      \o " as the batch is complete", 0))
              ELSE Ok(SolverResponse(FALSE,
                        "Not triggered yet, the schedule time wasn't reached yet",
                        trigger_time.val - clock.val))

\* Solver::exec_solver_step.  clock is the result of
\* SystemTime::now().duration_since(UNIX_EPOCH): Ok(seconds) or an error;
\* reports is the pool as the lock taken right after gives it.
exec_solver_step(trigger_time, clock, reports) ==
    IF ~trigger_time.ok THEN trigger_time
    ELSE IF ~clock.ok THEN Err("ExecError", "Solver execution error")
    ELSE IF trigger_time.val <= clock.val
         THEN IF DOMAIN reports # {}
              THEN Ok(SolverResponse(TRUE, "Triggered at " \o ToString(clock.val), 0))
              ELSE Ok(SolverResponse(FALSE, "Not triggered, the pool is empty", 0))
         ELSE IF Cardinality(DOMAIN reports) >= MAX_BATCH_SIZE
              THEN Ok(SolverResponse(TRUE, "Triggered at " \o ToString(clock.val)
                                      \o " as the batch is complete", 0))
              ELSE Ok(SolverResponse(FALSE,
                        "Not triggered yet, the schedule time wasn't reached yet",
                        trigger_time.val - clock.val))

\* The message of final_exec for a receipt that carries a status.
TransactionStatusMessage(status) ==
    IF status = 0 THEN "Transaction status: 0" ELSE "Transaction status: 1"

\* What the chain answers to `pending.await`: an error, no receipt, a receipt
\* without status, or a receipt with a status.
Receipt(kind, status) == [kind |-> kind, status |-> status]
Receipts == {Receipt("error", 0), Receipt("none", 0), Receipt("nostatus", 0),
             Receipt("status", 0), Receipt("status", 1)}
NoReceipt == Receipt("pending", 0)

\* final_exec that takes status 0 for the success
final_exec_result_inverted(receipt) ==
    IF receipt.kind = "error" THEN Err("ExecError", "Final execution error")
    ELSE IF receipt.kind = "status"
         THEN Ok(SolverResponse(receipt.status = 0,
                                TransactionStatusMessage(receipt.status), 0))
         ELSE Ok(SolverResponse(FALSE, "transaction status wasn't received", 0))

\* What final_exec returns once the pending transaction resolved.
final_exec_result(receipt) ==
    IF receipt.kind = "error" THEN Err("ExecError", "Final execution error")
    ELSE IF receipt.kind = "status"
         THEN Ok(SolverResponse(receipt.status # 0,
                                TransactionStatusMessage(receipt.status), 0))
         ELSE Ok(SolverResponse(FALSE, "transaction status wasn't received", 0))

\* The amounts paid out so far, with those of one more payload
PaidWith(sums, amounts) ==
    [a \in DOMAIN sums \cup DOMAIN amounts |->
        (IF a \in DOMAIN sums THEN sums[a] ELSE 0)
        + (IF a \in DOMAIN amounts THEN amounts[a] ELSE 0)]

\* final_exec that clears the pool whatever the receipt says
final_exec_pool_always_cleared(receipt, reports) == EmptyPool

\* The reports pool after final_exec saw the receipt: cleared on status > 0.
final_exec_pool(receipt, reports) ==
    IF receipt.kind = "status" /\ receipt.status > 0 THEN EmptyPool ELSE reports

----------------------------------------------------------------------------
(* cleanapp_scheduler/src/reports_aggr.rs *)

\* Json<Report>: serde keeps the fields of struct Report and ignores the rest.
Report(json) == [account |-> json.account, amount |-> json.amount]

\* U256 += : the uint crate panics on overflow before it assigns.
U256_add(a, b) == IF a + b > U256_MAX THEN Err("panic", "arithmetic operation overflow")
                  ELSE Ok(a + b)

\* aggregate_report that stores the amount of the request over the entry
aggregate_report_overwrites(body, reports) ==
    [a \in DOMAIN reports \cup {body.account} |->
        IF a = body.account THEN body.amount ELSE reports[a]]

\* aggregate_report: the pool after the request; a panic unwinds and leaves
\* the pool as it was.
aggregate_report(body, reports) ==
    IF body.account \in DOMAIN reports
    THEN LET sum == U256_add(reports[body.account], body.amount)
         IN  IF sum.ok THEN [reports EXCEPT ![body.account] = sum.val] ELSE reports
    ELSE [a \in DOMAIN reports \cup {body.account} |->
            IF a = body.account THEN body.amount ELSE reports[a]]

RECURSIVE SumAmounts(_, _)
SumAmounts(reports, accts) ==
    IF accts = {} THEN Ok(0)
    ELSE LET a == CHOOSE x \in accts : TRUE
             rest == SumAmounts(reports, accts \ {a})
         IN  IF rest.ok THEN U256_add(rest.val, reports[a]) ELSE rest

\* get_reports_stats: the fold panics when the total overflows.
get_reports_stats(reports) ==
    LET total == SumAmounts(reports, DOMAIN reports)
    IN  IF total.ok
        THEN Ok([accounts |-> Cardinality(DOMAIN reports), total_amount |-> total.val])
        ELSE total

----------------------------------------------------------------------------
(* State *)

VARIABLES
    program,        \* which binary runs
    now,            \* the wall clock, in seconds
    reports_pool,   \* Arc<Mutex<HashMap<Address, U256>>>: account -> amount
    guard,          \* Arc<Mutex<bool>>, the transaction guard: its holder or NoOne
    params,         \* LaminatorListener.params, the cached event data
    reports_seen,   \* POST /report requests served
    pc,             \* position of each spawned task
    event,          \* the event the task was spawned with
    made,           \* what Solver::new returned to the task
    solver,         \* the solver the task constructed
    payload,        \* DisbursalData {receivers, amounts} built by final_exec
    receipt,        \* what the chain answered to the task's last transaction
    sent,           \* the records the executor sent on stats_tx, in order
    commits,        \* calls of final_exec the executor made
    started,        \* execute's `let now = Instant::now()`
    last_message,   \* execute's local of the limit order executor
    last_transaction_status, \* execute's local of the limit order executor
    ingested,       \* exact sum of the amounts posted per account
    merged_keys,    \* schedule keys of the posts accumulated per account
    disbursed,      \* exact sum of the amounts paid out per account by commits
                    \* whose receipt has a status above 0
    reports_lock,   \* the mutex of reports_pool: its holder or NoOne
    query,          \* get_reports_stats in progress: its position and its total
    probe,          \* inputs and result of one exec_solver_step or get_stats_json call
    receiver,       \* when the runtime runs the task of run_stats_receive
    stats_channel,  \* mpsc::channel(100): the records sent and not yet received
    stats_map,      \* Arc<Mutex<HashMap<Uuid, TimerExecutorStats>>>
    resume,         \* the record and the next position of a task waiting in send
    calls,          \* the calls each executor made on its solver, in order
    stream,         \* the listener's event stream, and what the chain emitted past it
    heard,          \* the event the listener took from its stream last, if any
    reports_stats   \* what GET /reportstats answered last

\* the reports pool, its mutex, and what is recorded about the requests
ledger == <<reports_pool, reports_lock, query, reports_seen, ingested, merged_keys, disbursed>>
\* the locals of TimerRequestExecutor::execute of the limit order binary
locals == <<started, last_message, last_transaction_status>>

\* what the process is started with and scheduled by
config == <<program, receiver>>
\* the stats channel with its two ends
emitted == <<sent, stats_channel, stats_map, resume>>
\* the calls of the executors on their solvers
called == <<commits, calls>>
\* the state of the listener
listener == <<params, stream, heard>>
\* the answers recorded of single calls
probes == <<probe, reports_stats>>

vars == <<config, now, guard, listener, pc, event, made, solver, payload, receipt,
          emitted, called, locals, ledger, probes>>

NoSolver == [schedule_string |-> "", trigger_time |-> Err("none", "")]
NotMade == Err("none", "")
NoProbe == [trigger_time |-> Err("none", ""), clock |-> Err("none", ""),
            reports |-> EmptyPool, response |-> Err("none", "")]

FreeSlots == {e \in Executors : pc[e] = "free"}
NextSlot == CHOOSE e \in FreeSlots : \A f \in FreeSlots : e <= f

NoResume == [stats |-> TimerExecutorStats("", "", "", 0), next |-> ""]
NoStats == [id \in {} |-> 0]
NoReportStats == Err("none", "")
\* no get_reports_stats in progress
NoQuery == [pc |-> "idle", total |-> Err("none", "")]
\* the task of a GET /reportstats request, among the holders of reports_lock
StatsHandler == MaxExecutors + 1

\* One call of an executor on its solver: exec_solver_step with what the poll
\* read (the clock, or the answer of the price query), whether it returned
\* triggered and whether the deadline of the solver had passed; or final_exec.
Call(op, saw, triggered, late) ==
    [op |-> op, saw |-> saw, triggered |-> triggered, late |-> late]
FinalExecCall == Call("final_exec", Err("none", ""), FALSE, FALSE)

\* The stream of the listener: closed, open or fatal; the items taken of the
\* open stream; what ended the last stream; the events the chain emitted
\* while no stream was open.
Stream(state, taken, ended_by, missed) ==
    [state |-> state, taken |-> taken, ended_by |-> ended_by, missed |-> missed]

\* stats_map.insert that leaves the entry of a known id as it is
stats_map_insert_keeps_first(map, id, stats) ==
    [k \in DOMAIN map \cup {id} |-> IF k \in DOMAIN map THEN map[k] ELSE stats]

\* run_stats_receive, `stats_map.insert(stats.id, stats)`
stats_map_insert(map, id, stats) ==
    [k \in DOMAIN map \cup {id} |-> IF k = id THEN stats ELSE map[k]]

\* TimerRequestExecutor::send_stats, `self.stats_tx.send(..).await`, and where
\* the task goes on (`next`).  With room in the channel the record is sent;
\* a prompt receiver takes it out at once.  With a full channel the task
\* waits in send.
send_stats(e, stats, next) ==
    IF Len(stats_channel) < STATS_CHANNEL_CAPACITY
    THEN /\ sent' = [sent EXCEPT ![e] = Append(@, stats)]
         /\ IF receiver = "prompt"
            THEN /\ stats_map' = stats_map_insert(stats_map, e, stats)
                 /\ UNCHANGED stats_channel
            ELSE /\ stats_channel' = Append(stats_channel, [id |-> e, stats |-> stats])
                 /\ UNCHANGED stats_map
         /\ pc' = [pc EXCEPT ![e] = next]
         /\ UNCHANGED resume
    ELSE /\ resume' = [resume EXCEPT ![e] = [stats |-> stats, next |-> next]]
         /\ pc' = [pc EXCEPT ![e] = "send_stats"]
         /\ UNCHANGED <<sent, stats_channel, stats_map>>

----------------------------------------------------------------------------
(* cleanapp_scheduler/src/laminator_listener.rs *)

KITN == "kitn_disbursement_scheduler"

CallPushed(call_objs, data) == [call_objs |-> call_objs, data |-> data]

\* An event that passes the filter and carries a schedule that fires.
ScheduledEvent ==
    CallPushed(<<KITN, "proxy", "proxy">>, <<SolverData("CRON", CronEverySecond)>>)

\* The events the chain may deliver: call objects that pass or fail the
\* filter, and payloads with and without a CRON entry.
CallPushedEvents ==
    {CallPushed(<<KITN, "proxy", "proxy">>, d) :
        d \in {<<>>,
               <<SolverData("CRON", CronEverySecond)>>,
               <<SolverData("CRON", CronYear2000)>>,
               <<SolverData("CRON", CronGarbage)>>,
               <<SolverData("CRON", "")>>,
               <<SolverData("NOTE", "x")>>}}
    \cup {CallPushed(<<KITN, "proxy">>, <<SolverData("CRON", CronEverySecond)>>),
          CallPushed(<<"proxy", KITN, "proxy">>, <<SolverData("CRON", CronEverySecond)>>)}

\* is_cleanapp_event that looks at the number of call objects only
is_cleanapp_event_any_target(ev) == Len(ev.call_objs) = 3

is_cleanapp_event(ev) ==
    IF Len(ev.call_objs) # 3 THEN FALSE ELSE ev.call_objs[1] = KITN

\* `for ad in &call_pushed.data`: the value of the last CRON entry, from cron
RECURSIVE CronOf(_, _, _)
CronOf(data, i, cron) ==
    IF i > Len(data) THEN cron
    ELSE CronOf(data, i + 1, IF data[i].name = "CRON" THEN data[i].value ELSE cron)

\* listen that never substitutes the cached data
EffectiveData_own(ev) == ev.data

\* The event data the listener goes on with: the event's own, or the cached.
EffectiveData(ev) == IF ev.data # <<>> THEN ev.data ELSE params

\* listen of either listener, `events.stream().await`: the stream opens, or
\* fatal! ends the process
Listener_stream(opened) ==
    /\ stream.state = "closed"
    /\ stream' = IF opened THEN [stream EXCEPT !.state = "open", !.taken = 0]
                 ELSE [stream EXCEPT !.state = "fatal"]
    /\ UNCHANGED <<config, now, guard, params, heard, pc, event, made, solver, payload,
                   receipt, emitted, called, locals, ledger, probes>>

\* stream.take(10) after one more item: the stream ends with its 10th
StreamTaken(st) ==
    IF st.taken + 1 >= TAKE_LIMIT
    THEN [st EXCEPT !.state = "closed", !.taken = st.taken + 1, !.ended_by = "take"]
    ELSE [st EXCEPT !.taken = st.taken + 1]

\* `while let Some(Ok(..)) = stream_take.next().await` on an item that is an
\* error: the loop over the stream ends and listen goes round its outer loop
Listener_stream_error ==
    /\ stream.state = "open"
    /\ stream' = [stream EXCEPT !.state = "closed", !.ended_by = "error"]
    /\ UNCHANGED <<config, now, guard, params, heard, pc, event, made, solver, payload,
                   receipt, emitted, called, locals, ledger, probes>>

\* The contract emits an event while the listener, which had a stream before,
\* has none: the stream it opens next starts at the latest block and does not
\* deliver the event.
Chain_emits_unheard ==
    /\ stream.state = "closed"
    /\ stream.ended_by # "none"
    /\ stream.missed < MaxMissed
    /\ stream' = [stream EXCEPT !.missed = @ + 1]
    /\ UNCHANGED <<config, now, guard, params, heard, pc, event, made, solver, payload,
                   receipt, emitted, called, locals, ledger, probes>>

\* One turn of `while let Some(Ok(call_pushed)) = stream_take.next().await`
LaminatorListener_listen(ev) ==
    /\ program = "cleanapp_scheduler"
    /\ stream.state = "open"
    /\ stream' = StreamTaken(stream)
    /\ heard' = {ev}
    /\ IF ~is_cleanapp_event(ev)
       THEN UNCHANGED <<params, pc, event>>
       ELSE LET data == EffectiveData(ev)
                cron == CronOf(data, 1, "")
            IN  /\ params' = IF ev.data # <<>> /\ cron # "" THEN ev.data ELSE params
                /\ IF cron # ""
                   THEN /\ FreeSlots # {}
                        /\ pc' = [pc EXCEPT ![NextSlot] = "spawned"]
                        /\ event' = [event EXCEPT ![NextSlot] = data]
                   ELSE UNCHANGED <<pc, event>>
    /\ UNCHANGED <<config, now, guard, made, solver, payload, receipt, emitted,
                   called, locals, ledger, probes>>

\* The spawned task up to its first await: the solver is constructed (or the
\* error is printed and the task ends), the executor is created and execute
\* returns without polling when schedule_time() is an error.
CleanAppTask_start(e) ==
    /\ program = "cleanapp_scheduler"
    /\ pc[e] = "spawned"
    /\ LET res == CleanAppSchedulerSolver_new(event[e], now)
       IN  /\ made' = [made EXCEPT ![e] = IF res.ok THEN Ok("solver") ELSE res]
           /\ IF res.ok
              THEN /\ solver' = [solver EXCEPT ![e] = res.val]
                   /\ pc' = [pc EXCEPT ![e] = IF schedule_time(res.val).ok
                                              THEN "poll" ELSE "done"]
              ELSE /\ pc' = [pc EXCEPT ![e] = "dropped"]
                   /\ UNCHANGED solver
    /\ UNCHANGED <<config, now, guard, listener, event, payload, receipt, emitted,
                   called, locals, ledger, probes>>

----------------------------------------------------------------------------
(* cleanapp_scheduler/src/timer_executor.rs *)

\* execute, one turn of the loop up to final_exec or to the sleep:
\* exec_solver_step and the send_stats that follows it.  The call of
\* final_exec that follows the record of a poll that triggered is counted
\* with the poll.
CleanAppExecutor_step(e, clock) ==
    /\ program = "cleanapp_scheduler"
    /\ pc[e] = "poll"
    /\ (solver[e].trigger_time.ok /\ clock.ok) => reports_lock = NoOne
    /\ LET res == exec_solver_step(solver[e].trigger_time, clock, reports_pool)
           poll == Call("exec_solver_step", clock, res.ok /\ res.val.succeeded,
                        clock.ok /\ clock.val >= solver[e].trigger_time.val)
       IN  IF res.ok
           THEN IF res.val.succeeded
                THEN /\ send_stats(e, TimerExecutorStats("Running",
                                     "TransactionPending", res.val.message,
                                     res.val.remaining_secs), "fe_read")
                     /\ commits' = [commits EXCEPT ![e] = @ + 1]
                     /\ calls' = [calls EXCEPT ![e] = @ \o <<poll, FinalExecCall>>]
                ELSE /\ send_stats(e, TimerExecutorStats("Running",
                                     "StepPending", res.val.message,
                                     res.val.remaining_secs), "sleep")
                     /\ calls' = [calls EXCEPT ![e] = Append(@, poll)]
                     /\ UNCHANGED commits
           ELSE /\ send_stats(e, TimerExecutorStats("Failed", "StepFailed",
                                SolverError_to_string(res), 0), "sleep")
                /\ calls' = [calls EXCEPT ![e] = Append(@, poll)]
                /\ UNCHANGED commits
    /\ UNCHANGED <<config, now, guard, listener, event, made, solver, payload,
                   receipt, locals, ledger, probes>>

\* final_exec that keeps the lock of the pool after its read
CleanAppSolver_final_exec_read_keeps_lock(e) ==
    /\ program = "cleanapp_scheduler"
    /\ pc[e] = "fe_read"
    /\ reports_lock = NoOne
    /\ reports_lock' = e
    /\ payload' = [payload EXCEPT ![e] = reports_pool]
    /\ pc' = [pc EXCEPT ![e] = "fe_lock"]
    /\ UNCHANGED <<config, now, guard, listener, event, made, solver, receipt,
                   emitted, called, locals, reports_pool, query, reports_seen,
                   ingested, merged_keys, disbursed, probes>>

\* final_exec, `for (account, amount) in self.reports_pool.lock().await.iter()`:
\* the lock of the pool is taken for the loop and dropped after it
CleanAppSolver_final_exec_read(e) ==
    /\ program = "cleanapp_scheduler"
    /\ pc[e] = "fe_read"
    /\ reports_lock = NoOne
    /\ payload' = [payload EXCEPT ![e] = reports_pool]
    /\ pc' = [pc EXCEPT ![e] = "fe_lock"]
    /\ UNCHANGED <<config, now, guard, listener, event, made, solver, receipt,
                   emitted, called, locals, ledger, probes>>

\* final_exec that goes on without waiting for the guard
final_exec_lock_unguarded(e) ==
    /\ pc[e] = "fe_lock"
    /\ guard' = e
    /\ pc' = [pc EXCEPT ![e] = "fe_send"]
    /\ UNCHANGED <<config, now, listener, event, made, solver, payload, receipt,
                   emitted, called, locals, ledger, probes>>

\* final_exec that takes the lock of the pool first and waits for the guard
\* with it
final_exec_lock_ledger_first(e) ==
    /\ pc[e] = "fe_lock"
    /\ reports_lock \in {NoOne, e}
    /\ reports_lock = NoOne \/ guard = NoOne
    /\ reports_lock' = e
    /\ IF guard = NoOne
       THEN guard' = e /\ pc' = [pc EXCEPT ![e] = "fe_send"]
       ELSE UNCHANGED <<guard, pc>>
    /\ UNCHANGED <<config, now, listener, event, made, solver, payload, receipt,
                   emitted, called, locals, reports_pool, query, reports_seen,
                   ingested, merged_keys, disbursed, probes>>

\* final_exec of either solver, `let _guard = self.guard.lock().await`
final_exec_lock(e) ==
    /\ pc[e] = "fe_lock"
    /\ guard = NoOne
    /\ guard' = e
    /\ pc' = [pc EXCEPT ![e] = "fe_send"]
    /\ UNCHANGED <<config, now, listener, event, made, solver, payload, receipt,
                   emitted, called, locals, ledger, probes>>

\* execute that reports a final_exec that did not succeed as still running
CleanAppFinalStats_still_running(result) ==
    IF result.ok
    THEN IF result.val.succeeded
         THEN TimerExecutorStats("Succeeded", "Succeeded", result.val.message,
                                 result.val.remaining_secs)
         ELSE TimerExecutorStats("Running", "TransactionPending", result.val.message,
                                 result.val.remaining_secs)
    ELSE TimerExecutorStats("Running", "TransactionFailed",
                            SolverError_to_string(result), 0)

\* The record execute sends after final_exec returned `result`; with an error
\* it carries the remaining_secs of the poll that triggered, which is 0.
CleanAppFinalStats(result) ==
    IF result.ok
    THEN IF result.val.succeeded
         THEN TimerExecutorStats("Succeeded", "Succeeded", result.val.message,
                                 result.val.remaining_secs)
         ELSE TimerExecutorStats("Failed", "TransactionFailed", result.val.message,
                                 result.val.remaining_secs)
    ELSE TimerExecutorStats("Failed", "TransactionFailed",
                            SolverError_to_string(result), 0)

\* final_exec whose guard outlives the return on a send that failed
CleanAppSolver_final_exec_send_keeps_guard(e, sent_ok) ==
    /\ program = "cleanapp_scheduler"
    /\ pc[e] = "fe_send"
    /\ IF sent_ok
       THEN /\ pc' = [pc EXCEPT ![e] = "fe_receipt"]
            /\ UNCHANGED <<guard, emitted, payload>>
       ELSE /\ UNCHANGED guard
            /\ payload' = [payload EXCEPT ![e] = EmptyPool]
            /\ send_stats(e, CleanAppFinalStats(
                                 Err("ExecError", "Final execution error")), "done")
    /\ UNCHANGED <<config, now, listener, event, made, solver, receipt, called,
                   locals, ledger, probes>>

\* final_exec, `.send().await`: the transaction is accepted (sent_ok) or the
\* send fails; then final_exec returns the error (its receivers and amounts
\* vectors and the guard are dropped), execute reports and returns.
CleanAppSolver_final_exec_send(e, sent_ok) ==
    /\ program = "cleanapp_scheduler"
    /\ pc[e] = "fe_send"
    /\ IF sent_ok
       THEN /\ pc' = [pc EXCEPT ![e] = "fe_receipt"]
            /\ UNCHANGED <<guard, emitted, payload>>
       ELSE /\ guard' = NoOne
            /\ payload' = [payload EXCEPT ![e] = EmptyPool]
            /\ send_stats(e, CleanAppFinalStats(
                                 Err("ExecError", "Final execution error")), "done")
    /\ UNCHANGED <<config, now, listener, event, made, solver, receipt, called,
                   locals, ledger, probes>>

\* execute that sleeps and polls again after a final_exec that did not succeed
CleanAppSolver_final_exec_receipt_retries(e, r) ==
    /\ program = "cleanapp_scheduler"
    /\ pc[e] = "fe_receipt"
    /\ receipt' = [receipt EXCEPT ![e] = r]
    /\ (r.kind = "status" /\ r.status > 0) => reports_lock = NoOne
    /\ reports_pool' = final_exec_pool(r, reports_pool)
    /\ disbursed' = IF r.kind = "status" /\ r.status > 0
                    THEN PaidWith(disbursed, payload[e]) ELSE disbursed
    /\ guard' = NoOne
    /\ payload' = [payload EXCEPT ![e] = EmptyPool]
    /\ send_stats(e, CleanAppFinalStats(final_exec_result(r)),
                  IF r.kind = "status" /\ r.status > 0 THEN "done" ELSE "sleep")
    /\ UNCHANGED <<config, now, listener, event, made, solver, called, locals,
                   reports_lock, query, reports_seen, ingested, merged_keys, probes>>

\* final_exec, `pending.await` and the rest: the pool is cleared on a status
\* above 0, final_exec returns (its receivers and amounts vectors and the
\* guard are dropped), execute reports and returns.
CleanAppSolver_final_exec_receipt(e, r) ==
    /\ program = "cleanapp_scheduler"
    /\ pc[e] = "fe_receipt"
    /\ receipt' = [receipt EXCEPT ![e] = r]
    /\ (r.kind = "status" /\ r.status > 0) => reports_lock = NoOne
    /\ reports_pool' = final_exec_pool(r, reports_pool)
    /\ disbursed' = IF r.kind = "status" /\ r.status > 0
                    THEN PaidWith(disbursed, payload[e]) ELSE disbursed
    /\ guard' = NoOne
    /\ payload' = [payload EXCEPT ![e] = EmptyPool]
    /\ send_stats(e, CleanAppFinalStats(final_exec_result(r)), "done")
    /\ UNCHANGED <<config, now, listener, event, made, solver, called, locals,
                   reports_lock, query, reports_seen, ingested, merged_keys, probes>>

----------------------------------------------------------------------------
(* POST /report, and the clock *)

Jsons == [account : Accounts, amount : Amounts, schedule_key : ScheduleKeys]

\* main.rs: `move |body| aggregate_report(body, shared_state)`, with what the
\* request asked for recorded in ingested and merged_keys
PostReport(json) ==
    /\ program = "cleanapp_scheduler"
    /\ reports_lock = NoOne
    /\ reports_seen' = reports_seen + 1
    /\ reports_pool' = aggregate_report(Report(json), reports_pool)
    /\ ingested' = [a \in DOMAIN ingested \cup {json.account} |->
                      (IF a \in DOMAIN ingested THEN ingested[a] ELSE 0)
                      + (IF a = json.account THEN json.amount ELSE 0)]
    /\ merged_keys' = [a \in DOMAIN merged_keys \cup {json.account} |->
                      (IF a \in DOMAIN merged_keys THEN merged_keys[a] ELSE {})
                      \cup (IF a = json.account THEN {json.schedule_key} ELSE {})]
    /\ UNCHANGED <<reports_lock, query, disbursed>>
    /\ UNCHANGED <<config, now, guard, listener, pc, event, made, solver, payload,
                   receipt, emitted, called, locals, probes>>

\* A second passes.  sleep(tick_duration) of a sleeping executor ends: the
\* scheduled-batch executor polls again, the limit order executor is back at
\* the condition of its while loop.
TickWithin(limit) ==
    /\ now < limit
    /\ now' = now + TickSecs
    /\ pc' = [e \in Executors |->
                IF pc[e] # "sleep" THEN pc[e]
                ELSE IF program = "limit_order" THEN "loop" ELSE "poll"]
    /\ UNCHANGED <<config, guard, listener, event, made, solver, payload, receipt,
                   emitted, called, locals, ledger, probes>>

Tick == TickWithin(MaxTime)

\* GET /reportstats: get_reports_stats answers with the pool as it is
GetReportsStats ==
    /\ program = "cleanapp_scheduler"
    /\ reports_lock = NoOne
    /\ reports_stats' = get_reports_stats(reports_pool)
    /\ UNCHANGED <<config, now, guard, listener, pc, event, made, solver, payload,
                   receipt, emitted, called, locals, ledger, probe>>

\* get_reports_stats that reads the pool without its lock
GetReportsStats_lock_skipped ==
    /\ program = "cleanapp_scheduler"
    /\ query.pc = "idle"
    /\ query' = [pc |-> "locked", total |-> Err("none", "")]
    /\ UNCHANGED <<config, now, guard, listener, pc, event, made, solver, payload,
                   receipt, emitted, called, locals, reports_pool, reports_lock,
                   reports_seen, ingested, merged_keys, disbursed, probes>>

\* get_reports_stats step by step, `let reports = reports.lock().await`
GetReportsStats_lock ==
    /\ program = "cleanapp_scheduler"
    /\ query.pc = "idle"
    /\ reports_lock = NoOne
    /\ reports_lock' = StatsHandler
    /\ query' = [pc |-> "locked", total |-> Err("none", "")]
    /\ UNCHANGED <<config, now, guard, listener, pc, event, made, solver, payload,
                   receipt, emitted, called, locals, reports_pool, reports_seen,
                   ingested, merged_keys, disbursed, probes>>

\* get_reports_stats, `reports.iter().fold(U256::zero(), ..)`: the total; on an
\* overflow the handler panics and its lock is dropped
GetReportsStats_fold ==
    /\ query.pc = "locked"
    /\ LET total == SumAmounts(reports_pool, DOMAIN reports_pool)
       IN  IF total.ok
           THEN /\ query' = [pc |-> "folded", total |-> total]
                /\ UNCHANGED <<reports_lock, reports_stats>>
           ELSE /\ query' = NoQuery
                /\ reports_lock' = NoOne
                /\ reports_stats' = total
    /\ UNCHANGED <<config, now, guard, listener, pc, event, made, solver, payload,
                   receipt, emitted, called, locals, reports_pool, reports_seen,
                   ingested, merged_keys, disbursed, probe>>

\* get_reports_stats, `Json(ReportStats {accounts: reports.len(), ..})` and the
\* return, which drops the lock
GetReportsStats_return ==
    /\ query.pc = "folded"
    /\ reports_stats' = Ok([accounts |-> Cardinality(DOMAIN reports_pool),
                            total_amount |-> query.total.val])
    /\ query' = NoQuery
    /\ reports_lock' = NoOne
    /\ UNCHANGED <<config, now, guard, listener, pc, event, made, solver, payload,
                   receipt, emitted, called, locals, reports_pool, reports_seen,
                   ingested, merged_keys, disbursed, probe>>

----------------------------------------------------------------------------
(* stats.rs and the stats channel *)

\* send_stats of a task that waited in send, once the channel has room
send_stats_resume(e) ==
    /\ pc[e] = "send_stats"
    /\ Len(stats_channel) < STATS_CHANNEL_CAPACITY
    /\ sent' = [sent EXCEPT ![e] = Append(@, resume[e].stats)]
    /\ stats_channel' = Append(stats_channel, [id |-> e, stats |-> resume[e].stats])
    /\ pc' = [pc EXCEPT ![e] = resume[e].next]
    /\ resume' = [resume EXCEPT ![e] = NoResume]
    /\ UNCHANGED <<config, now, guard, listener, event, made, solver, payload,
                   receipt, stats_map, called, locals, ledger, probes>>

\* run_stats_receive, one turn of `while let Some(stats) = rx.recv().await`
run_stats_receive ==
    /\ stats_channel # <<>>
    /\ stats_map' = stats_map_insert(stats_map, Head(stats_channel).id,
                                     Head(stats_channel).stats)
    /\ stats_channel' = Tail(stats_channel)
    /\ UNCHANGED <<config, now, guard, listener, pc, event, made, solver, payload,
                   receipt, sent, resume, called, locals, ledger, probes>>

----------------------------------------------------------------------------
(* limit_order/src/solvers/limit_order.rs *)

\* selector(APP_SELECTOR), the only key of solvers_params
LIMIT_ORDER_APP_ID == "FLASHLIQUIDITY.LIMITORDER"

\* A value of mev_time_data as its bytes decode: an address, a uint256, a
\* string that holds a duration of `v` seconds, or bytes that are none of these.
AbiValue(kind, v) == [kind |-> kind, v |-> v]
MevTimeData(key, value) == [key |-> key, value |-> value]
UserObjectivePushed(app_id, mev_time_data) ==
    [app_id |-> app_id, mev_time_data |-> mev_time_data]

UninitializedSolver ==
    [give_token |-> Err("FromHexError", "InvalidHexLength"),
     take_token |-> Err("FromHexError", "InvalidHexLength"),
     buy_price  |-> Err("FromDecStrErr", "InvalidLength"),
     slippage   |-> Err("FromDecStrErr", "InvalidLength"),
     time_limit |-> Err("NoValueFound", "Uninitialized value"),
     panicked   |-> FALSE]

\* The `for ad in &event.mev_time_data` loop of LimitOrderSolver::new, from
\* entry i on.  The unwraps of give_token, take_token and time_limit panic on
\* a value that does not parse; buy_price and slippage keep their error.
RECURSIVE ExtractMevTimeData(_, _, _)
ExtractMevTimeData(data, i, ret) ==
    IF i > Len(data) THEN ret
    ELSE LET ad == data[i] IN
         IF ad.key \in {"give_token", "take_token"}
         THEN IF ad.value.kind = "address"
              THEN ExtractMevTimeData(data, i + 1, [ret EXCEPT ![ad.key] = Ok(ad.value.v)])
              ELSE [ret EXCEPT !.panicked = TRUE]
         ELSE IF ad.key \in {"buy_price", "slippage"}
         THEN IF ad.value.kind = "uint"
              THEN ExtractMevTimeData(data, i + 1, [ret EXCEPT ![ad.key] = Ok(ad.value.v)])
              ELSE ExtractMevTimeData(data, i + 1, ret)
         ELSE IF ad.key = "time_limit"
         THEN IF ad.value.kind = "duration"
              THEN ExtractMevTimeData(data, i + 1, [ret EXCEPT !.time_limit = Ok(ad.value.v)])
              ELSE [ret EXCEPT !.panicked = TRUE]
         ELSE ExtractMevTimeData(data, i + 1, ret)

\* LimitOrderSolver::new: the solver, a SolverError, or a panic of the task
LimitOrderSolver_new(ev) ==
    IF ev.app_id # LIMIT_ORDER_APP_ID THEN Err("MisleadingSelector", ev.app_id)
    ELSE LET ret == ExtractMevTimeData(ev.mev_time_data, 1, UninitializedSolver)
         IN  IF ret.panicked THEN Err("panic", "called Result::unwrap() on an Err value")
             ELSE IF ~ret.give_token.ok
                  THEN Err("ParamError", "Error in the parameter give_token")
             ELSE IF ~ret.take_token.ok
                  THEN Err("ParamError", "Error in the parameter take_token")
             ELSE IF ~ret.buy_price.ok
                  THEN Err("ParamError", "Error in the parameter buy_price")
             ELSE IF ~ret.slippage.ok
                  THEN Err("ParamError", "Error in the parameter slippage")
             ELSE IF ~ret.time_limit.ok
                  THEN Err("ParamError", "Error in the parameter time_limit")
             ELSE Ok(ret)

\* Solver::time_limit
time_limit(s) == s.time_limit

\* What get_price_of_weth().call() answers: a price, or an error
Prices == {Ok(95), Ok(120)}
PriceResults == Prices \cup {Err("ContractError", "")}

\* SolverResponse of the limit order binary
LimitOrderResponse(succeeded, message) == [succeeded |-> succeeded, message |-> message]

\* exec_solver_step that does not trigger on a price equal to the order's
LimitOrderSolver_exec_solver_step_strict(s, price) ==
    IF ~s.buy_price.ok THEN Err("ExecError", s.buy_price.text)
    ELSE IF ~price.ok THEN Err("ExecError", price.text)
    ELSE IF price.val >= s.buy_price.val
         THEN Ok(LimitOrderResponse(FALSE,
                   "The current price " \o ToString(price.val)
                   \o " is higher than the desired " \o ToString(s.buy_price.val)))
         ELSE Ok(LimitOrderResponse(TRUE, "Price conditions are met"))

\* exec_solver_step that triggers on a price above the order's
LimitOrderSolver_exec_solver_step_inverted(s, price) ==
    IF ~s.buy_price.ok THEN Err("ExecError", s.buy_price.text)
    ELSE IF ~price.ok THEN Err("ExecError", price.text)
    ELSE IF price.val <= s.buy_price.val
         THEN Ok(LimitOrderResponse(FALSE,
                   "The current price " \o ToString(price.val)
                   \o " is higher than the desired " \o ToString(s.buy_price.val)))
         ELSE Ok(LimitOrderResponse(TRUE, "Price conditions are met"))

\* LimitOrderSolver::exec_solver_step
LimitOrderSolver_exec_solver_step(s, price) ==
    IF ~s.buy_price.ok THEN Err("ExecError", s.buy_price.text)
    ELSE IF ~price.ok THEN Err("ExecError", price.text)
    ELSE IF price.val > s.buy_price.val
         THEN Ok(LimitOrderResponse(FALSE,
                   "The current price " \o ToString(price.val)
                   \o " is higher than the desired " \o ToString(s.buy_price.val)))
         ELSE Ok(LimitOrderResponse(TRUE, "Price conditions are met"))

\* What LimitOrderSolver::final_exec returns once the transaction resolved.
LimitOrderSolver_final_exec_result(r) ==
    IF r.kind = "error" THEN Err("ExecError", "Final execution error")
    ELSE IF r.kind = "status"
         THEN Ok(LimitOrderResponse(r.status # 0, TransactionStatusMessage(r.status)))
         ELSE Ok(LimitOrderResponse(FALSE, "transaction status wasn't received"))

----------------------------------------------------------------------------
(* limit_order/src/call_breaker_listener.rs *)

\* The entries of a complete order; the order lasts one second.
OrderData ==
    <<MevTimeData("give_token", AbiValue("address", 1)),
      MevTimeData("take_token", AbiValue("address", 2)),
      MevTimeData("buy_price", AbiValue("uint", 100)),
      MevTimeData("slippage", AbiValue("uint", 1)),
      MevTimeData("time_limit", AbiValue("duration", 1))>>

\* data without its i-th entry, and with the value of its i-th entry replaced
Without(data, i) == SubSeq(data, 1, i - 1) \o SubSeq(data, i + 1, Len(data))
Malformed(data, i) == [data EXCEPT ![i].value = AbiValue("bytes", 0)]

OrderEvent == UserObjectivePushed(LIMIT_ORDER_APP_ID, OrderData)

\* The events the chain may deliver: the complete order, orders that miss one
\* entry, orders with one entry that does not parse, orders that miss one
\* entry and carry another that does not parse, and an event of another app.
UserObjectivePushedEvents ==
    {OrderEvent, UserObjectivePushed("OTHER.APP", OrderData)}
    \cup {UserObjectivePushed(LIMIT_ORDER_APP_ID, Without(OrderData, i)) : i \in 1..5}
    \cup {UserObjectivePushed(LIMIT_ORDER_APP_ID, Malformed(OrderData, i)) : i \in 1..5}
    \cup {UserObjectivePushed(LIMIT_ORDER_APP_ID, Without(Malformed(OrderData, 5), 3)),
          UserObjectivePushed(LIMIT_ORDER_APP_ID, Without(Malformed(OrderData, 1), 5))}

\* One turn of `while let Some(Ok(user_objective_pushed)) = stream_take.next().await`
CallBreakerListener_listen(ev) ==
    /\ program = "limit_order"
    /\ stream.state = "open"
    /\ stream' = StreamTaken(stream)
    /\ heard' = {ev}
    /\ IF ev.app_id = LIMIT_ORDER_APP_ID
       THEN /\ FreeSlots # {}
            /\ pc' = [pc EXCEPT ![NextSlot] = "spawned"]
            /\ event' = [event EXCEPT ![NextSlot] = ev]
       ELSE UNCHANGED <<pc, event>>
    /\ UNCHANGED <<config, now, guard, params, made, solver, payload, receipt,
                   emitted, called, locals, ledger, probes>>

\* The spawned task up to its first await: LimitOrderSolver::new, and with a
\* solver the start of execute (the timer is taken, time_limit is validated).
LimitOrderTask_start(e) ==
    /\ program = "limit_order"
    /\ pc[e] = "spawned"
    /\ IF event[e].app_id # LIMIT_ORDER_APP_ID
       THEN /\ pc' = [pc EXCEPT ![e] = "dropped"]
            /\ UNCHANGED <<made, solver, locals>>
       ELSE LET res == LimitOrderSolver_new(event[e])
            IN  /\ made' = [made EXCEPT ![e] = IF res.ok THEN Ok("solver") ELSE res]
                /\ IF res.ok
                   THEN /\ solver' = [solver EXCEPT ![e] = res.val]
                        /\ started' = [started EXCEPT ![e] = now]
                        /\ last_message' = [last_message EXCEPT ![e] = ""]
                        /\ last_transaction_status' =
                              [last_transaction_status EXCEPT ![e] = "NotExecuted"]
                        /\ pc' = [pc EXCEPT ![e] = IF time_limit(res.val).ok
                                                   THEN "loop" ELSE "done"]
                   ELSE /\ pc' = [pc EXCEPT ![e] = IF res.kind = "panic"
                                                   THEN "panicked" ELSE "dropped"]
                        /\ UNCHANGED <<solver, locals>>
    /\ UNCHANGED <<config, now, guard, listener, event, payload, receipt, emitted,
                   called, ledger, probes>>

----------------------------------------------------------------------------
(* limit_order/src/timer_executor.rs *)

\* now.elapsed() of executor e
Elapsed(e) == now - started[e]

abs_diff(a, b) == IF a >= b THEN a - b ELSE b - a

\* TimerRequestExecutor::send_stats of the limit order binary: the record it
\* builds from the status, the time limit and the timer
LimitOrderStats(e, status, transaction_status, message) ==
    [status |-> status, transaction_status |-> transaction_status,
     message |-> message, elapsed |-> Elapsed(e),
     remaining |-> IF status = "Running"
                   THEN abs_diff(time_limit(solver[e]).val, Elapsed(e)) ELSE 0]

\* execute, `while now.elapsed() < time_limit`: into the body, or out of the
\* loop to the Timeout record and the end of the task
LimitOrderExecutor_loop(e) ==
    /\ program = "limit_order"
    /\ pc[e] = "loop"
    /\ IF Elapsed(e) < time_limit(solver[e]).val
       THEN /\ pc' = [pc EXCEPT ![e] = "poll"]
            /\ UNCHANGED emitted
       ELSE send_stats(e, LimitOrderStats(e, "Timeout", last_transaction_status[e],
                                         last_message[e]), "done")
    /\ UNCHANGED <<config, now, guard, listener, event, made, solver, payload,
                   receipt, called, locals, ledger, probes>>

\* execute, exec_solver_step and the send_stats that follows it; `price` is the
\* answer of the price query
LimitOrderExecutor_step(e, price) ==
    /\ program = "limit_order"
    /\ pc[e] = "poll"
    /\ LET res == LimitOrderSolver_exec_solver_step(solver[e], price)
           poll == Call("exec_solver_step", price, res.ok /\ res.val.succeeded,
                        Elapsed(e) >= time_limit(solver[e]).val)
       IN  IF res.ok
           THEN /\ last_message' = [last_message EXCEPT ![e] = res.val.message]
                /\ IF res.val.succeeded
                   THEN /\ send_stats(e, LimitOrderStats(e, "Running",
                                  "TransactionPending", res.val.message), "fe_lock")
                        /\ commits' = [commits EXCEPT ![e] = @ + 1]
                        /\ calls' = [calls EXCEPT ![e] = @ \o <<poll, FinalExecCall>>]
                        /\ UNCHANGED last_transaction_status
                   ELSE /\ send_stats(e, LimitOrderStats(e, "Running",
                                  "StepPending", res.val.message), "sleep")
                        /\ last_transaction_status' =
                              [last_transaction_status EXCEPT ![e] = "StepPending"]
                        /\ calls' = [calls EXCEPT ![e] = Append(@, poll)]
                        /\ UNCHANGED commits
           ELSE /\ send_stats(e, LimitOrderStats(e, "Failed", "StepFailed",
                                                 SolverError_to_string(res)), "sleep")
                /\ last_transaction_status' =
                      [last_transaction_status EXCEPT ![e] = "StepFailed"]
                /\ calls' = [calls EXCEPT ![e] = Append(@, poll)]
                /\ UNCHANGED <<commits, last_message>>
    /\ UNCHANGED <<config, now, guard, listener, event, made, solver, payload,
                   receipt, started, ledger, probes>>

\* execute that goes round its loop again after a final_exec that succeeded
LimitOrderExecutor_after_final_exec_loops_on(e, result) ==
    IF result.ok
    THEN /\ last_message' = [last_message EXCEPT ![e] = result.val.message]
         /\ IF result.val.succeeded
            THEN /\ send_stats(e, LimitOrderStats(e, "Succeeded", "Succeeded",
                                                  result.val.message), "sleep")
                 /\ UNCHANGED last_transaction_status
            ELSE /\ send_stats(e, LimitOrderStats(e, "Running",
                                "TransactionPending", result.val.message), "sleep")
                 /\ last_transaction_status' =
                       [last_transaction_status EXCEPT ![e] = "TransactionPending"]
    ELSE /\ send_stats(e, LimitOrderStats(e, "Running", "TransactionFailed",
                                          SolverError_to_string(result)), "sleep")
         /\ last_transaction_status' =
               [last_transaction_status EXCEPT ![e] = "TransactionFailed"]
         /\ UNCHANGED last_message

\* execute that ends as Failed on a final_exec that did not succeed
LimitOrderExecutor_after_final_exec_gives_up(e, result) ==
    IF result.ok
    THEN /\ last_message' = [last_message EXCEPT ![e] = result.val.message]
         /\ IF result.val.succeeded
            THEN /\ send_stats(e, LimitOrderStats(e, "Succeeded", "Succeeded",
                                                  result.val.message), "done")
                 /\ UNCHANGED last_transaction_status
            ELSE /\ send_stats(e, LimitOrderStats(e, "Failed",
                                "TransactionFailed", result.val.message), "done")
                 /\ last_transaction_status' =
                       [last_transaction_status EXCEPT ![e] = "TransactionFailed"]
    ELSE /\ send_stats(e, LimitOrderStats(e, "Failed", "TransactionFailed",
                                          SolverError_to_string(result)), "done")
         /\ last_transaction_status' =
               [last_transaction_status EXCEPT ![e] = "TransactionFailed"]
         /\ UNCHANGED last_message

\* execute, after final_exec returned `result`: the record, the locals and
\* where the task goes on
LimitOrderExecutor_after_final_exec(e, result) ==
    IF result.ok
    THEN /\ last_message' = [last_message EXCEPT ![e] = result.val.message]
         /\ IF result.val.succeeded
            THEN /\ send_stats(e, LimitOrderStats(e, "Succeeded", "Succeeded",
                                                  result.val.message), "done")
                 /\ UNCHANGED last_transaction_status
            ELSE /\ send_stats(e, LimitOrderStats(e, "Running",
                                "TransactionPending", result.val.message), "sleep")
                 /\ last_transaction_status' =
                       [last_transaction_status EXCEPT ![e] = "TransactionPending"]
    ELSE /\ send_stats(e, LimitOrderStats(e, "Running", "TransactionFailed",
                                          SolverError_to_string(result)), "sleep")
         /\ last_transaction_status' =
               [last_transaction_status EXCEPT ![e] = "TransactionFailed"]
         /\ UNCHANGED last_message

\* final_exec that returns from a send that failed without dropping the guard
LimitOrderSolver_final_exec_send_keeps_guard(e, sent_ok) ==
    /\ program = "limit_order"
    /\ pc[e] = "fe_send"
    /\ IF sent_ok
       THEN /\ pc' = [pc EXCEPT ![e] = "fe_receipt"]
            /\ UNCHANGED <<guard, emitted, last_message, last_transaction_status>>
       ELSE /\ UNCHANGED guard
            /\ LimitOrderExecutor_after_final_exec(e,
                   Err("ExecError", "Final execution error"))
    /\ UNCHANGED <<config, now, listener, event, made, solver, payload, receipt,
                   called, started, ledger, probes>>

\* final_exec, `.send().await`: the transaction is accepted (sent_ok) or the
\* send fails, final_exec returns the error and the guard is dropped
LimitOrderSolver_final_exec_send(e, sent_ok) ==
    /\ program = "limit_order"
    /\ pc[e] = "fe_send"
    /\ IF sent_ok
       THEN /\ pc' = [pc EXCEPT ![e] = "fe_receipt"]
            /\ UNCHANGED <<guard, emitted, last_message, last_transaction_status>>
       ELSE /\ guard' = NoOne
            /\ LimitOrderExecutor_after_final_exec(e,
                   Err("ExecError", "Final execution error"))
    /\ UNCHANGED <<config, now, listener, event, made, solver, payload, receipt,
                   called, started, ledger, probes>>

\* final_exec, `pending.await` and the rest: final_exec returns and the guard
\* is dropped
LimitOrderSolver_final_exec_receipt(e, r) ==
    /\ program = "limit_order"
    /\ pc[e] = "fe_receipt"
    /\ receipt' = [receipt EXCEPT ![e] = r]
    /\ guard' = NoOne
    /\ LimitOrderExecutor_after_final_exec(e, LimitOrderSolver_final_exec_result(r))
    /\ UNCHANGED <<config, now, listener, event, made, solver, payload, called,
                   started, ledger, probes>>

----------------------------------------------------------------------------
(* The system: listener, executors, POST /report and the clock *)

Init ==
    /\ program \in {"cleanapp_scheduler", "limit_order"}
    /\ now = 0
    /\ reports_pool = EmptyPool
    /\ guard = NoOne
    /\ params = <<>>
    /\ reports_seen = 0
    /\ pc = [e \in Executors |-> "free"]
    /\ event = [e \in Executors |-> <<>>]
    /\ made = [e \in Executors |-> NotMade]
    /\ solver = [e \in Executors |-> NoSolver]
    /\ payload = [e \in Executors |-> EmptyPool]
    /\ receipt = [e \in Executors |-> NoReceipt]
    /\ sent = [e \in Executors |-> <<>>]
    /\ commits = [e \in Executors |-> 0]
    /\ started = [e \in Executors |-> 0]
    /\ last_message = [e \in Executors |-> ""]
    /\ last_transaction_status = [e \in Executors |-> "NotExecuted"]
    /\ ingested = EmptyPool
    /\ merged_keys = EmptyPool
    /\ disbursed = EmptyPool
    /\ reports_lock = NoOne
    /\ query = NoQuery
    /\ probe = NoProbe
    /\ receiver = "prompt"
    /\ stats_channel = <<>>
    /\ stats_map = NoStats
    /\ resume = [e \in Executors |-> NoResume]
    /\ calls = [e \in Executors |-> <<>>]
    /\ stream = Stream("closed", 0, "none", 0)
    /\ heard = {}
    /\ reports_stats = NoReportStats

\* The request the clients of the scheduled batch post.
BatchReport == [account |-> 1, amount |-> 1, schedule_key |-> "K1"]

\* Events that start executors, requests that fill the pool, and the
\* executors of both binaries with every answer of the chain.
Next ==
    \/ Listener_stream(TRUE)
    \/ LaminatorListener_listen(ScheduledEvent)
    \/ \E e \in Executors : CleanAppTask_start(e)
    \/ \E e \in Executors : CleanAppExecutor_step(e, Ok(now))
    \/ \E e \in Executors : CleanAppSolver_final_exec_read(e)
    \/ \E e \in Executors : final_exec_lock(e)
    \/ \E e \in Executors : \E sent_ok \in BOOLEAN :
          CleanAppSolver_final_exec_send(e, sent_ok)
    \/ \E e \in Executors : \E r \in Receipts : CleanAppSolver_final_exec_receipt(e, r)
    \/ reports_seen < MaxReports /\ PostReport(BatchReport)
    \/ Tick
    \/ CallBreakerListener_listen(OrderEvent)
    \/ \E e \in Executors : LimitOrderTask_start(e)
    \/ \E e \in Executors : LimitOrderExecutor_loop(e)
    \/ \E e \in Executors : \E price \in Prices : LimitOrderExecutor_step(e, price)
    \/ \E e \in Executors : \E sent_ok \in BOOLEAN :
          LimitOrderSolver_final_exec_send(e, sent_ok)
    \/ \E e \in Executors : \E r \in Receipts : LimitOrderSolver_final_exec_receipt(e, r)

Spec == Init /\ [][Next]_vars

----------------------------------------------------------------------------
(* The transaction guard and the reports pool around final_exec *)

\* The executor is inside the critical section of final_exec: it holds the
\* guard and sends the transaction or waits for its receipt.
InCriticalSection(e) == pc[e] \in {"fe_send", "fe_receipt"}

\* C1: at most one executor at a time is inside the commit critical section
\* (transaction send plus wait for the receipt), whatever the number of
\* executors sharing the guard and whatever the interleaving; the executor
\* inside is the holder of the guard.
GuardMutualExclusion ==
    /\ \A e1, e2 \in Executors :
          InCriticalSection(e1) /\ InCriticalSection(e2) => e1 = e2
    /\ \A e \in Executors : InCriticalSection(e) => guard = e

\* One executor waits for its receipt while another waits for the guard.
GuardContended ==
    \E e1, e2 \in Executors :
        /\ e1 # e2
        /\ pc[e1] = "fe_receipt"
        /\ pc[e2] = "fe_lock"

\* What is left of `pool` once the amounts of `paid` are taken out of it.
Unpaid(pool, paid) ==
    LET due(a) == IF a \in DOMAIN paid THEN paid[a] ELSE 0
    IN  [a \in {x \in DOMAIN pool : pool[x] > due(x)} |-> pool[a] - due(a)]

\* Executor e ends final_exec with a receipt of status above 0 in this step.
CommitSucceeds(e) ==
    /\ program = "cleanapp_scheduler"
    /\ pc[e] = "fe_receipt"
    /\ pc'[e] = "done"
    /\ receipt'[e].kind = "status"
    /\ receipt'[e].status > 0

\* Executor e ends final_exec without such a receipt in this step: the send
\* failed, the wait for the receipt failed, or the receipt has no status or
\* status 0.
CommitFails(e) ==
    /\ program = "cleanapp_scheduler"
    /\ InCriticalSection(e)
    /\ pc'[e] = "done"
    /\ ~CommitSucceeds(e)

\* C2: no ingestion is lost around a commit.  When a commit clears the pool
\* and no other executor has started a commit, what the pool holds beyond the
\* payload the commit read was ingested after that read, and it is still in
\* the pool after the clear.
NoIngestionLost ==
    [][\A e \in Executors :
          (CommitSucceeds(e) /\ \A f \in Executors \ {e} : commits[f] = 0)
          => reports_pool' = Unpaid(reports_pool, payload[e])]_vars

\* C3: a commit whose receipt has a status above 0 leaves the pool cleared; a
\* commit that fails in any way leaves the pool exactly as it was.
CommitClearsOnlyOnSuccess ==
    [][\A e \in Executors :
          /\ CommitSucceeds(e) => reports_pool' = EmptyPool
          /\ CommitFails(e) => reports_pool' = reports_pool]_vars

\* One commit succeeded, another one failed on a receipt of status 0, and the
\* pool holds what was posted after the clear.
CommitsOfBothKinds ==
    \E e, f \in Executors :
        /\ program = "cleanapp_scheduler"
        /\ pc[e] = "done" /\ receipt[e] = Receipt("status", 1)
        /\ pc[f] = "done" /\ receipt[f] = Receipt("status", 0)
        /\ reports_pool # EmptyPool

\* C6: no commit submits a transaction whose disbursal payload has an empty
\* receivers list: an executor that sent its transaction sent a payload with
\* at least one receiver.
NeverCommitsEmptyBatch ==
    \A e \in Executors :
        (program = "cleanapp_scheduler" /\ pc[e] = "fe_receipt")
        => DOMAIN payload[e] # {}

----------------------------------------------------------------------------
(* exec_solver_step of the scheduled batch on its own: one call per step, *)
(* over trigger times, clock readings and pools around MAX_BATCH_SIZE     *)

PollTimes == 0..PollMaxTime
TriggerTimes == {Ok(t) : t \in PollTimes}
                \cup {Err("ParamError", "Missing CRON parameter")}
ClockResults == {Ok(t) : t \in PollTimes} \cup {Err("SystemTimeError", "")}

\* A pool of n accounts
PoolOfSize(n) == [a \in 1..n |-> 1]
PollPools == {PoolOfSize(n) : n \in {0, 1, MAX_BATCH_SIZE - 1, MAX_BATCH_SIZE,
                                     MAX_BATCH_SIZE + 1}}

\* One call of exec_solver_step, with what it was given and what it returned
Call_exec_solver_step(trigger_time, clock, reports) ==
    /\ probe' = [trigger_time |-> trigger_time, clock |-> clock, reports |-> reports,
                 response |-> exec_solver_step(trigger_time, clock, reports)]
    /\ UNCHANGED <<config, now, guard, listener, pc, event, made, solver, payload,
                   receipt, emitted, called, locals, ledger, reports_stats>>

InitPoll == Init /\ program = "cleanapp_scheduler"

NextPoll ==
    \E trigger_time \in TriggerTimes : \E clock \in ClockResults :
        \E reports \in PollPools : Call_exec_solver_step(trigger_time, clock, reports)

SpecPoll == InitPoll /\ [][NextPoll]_vars

\* The call had a trigger time and read the clock.
PollTimed == probe.trigger_time.ok /\ probe.clock.ok

\* C4: at or past the trigger time, exec_solver_step returns triggered if and
\* only if the pool holds at least one entry.
PollAtOrPastTrigger ==
    (PollTimed /\ probe.clock.val >= probe.trigger_time.val)
    => /\ probe.response.ok
       /\ probe.response.val.succeeded <=> (DOMAIN probe.reports # {})

\* A call past the trigger time on an empty pool, which did not trigger.
PolledEmptyPastTrigger ==
    /\ PollTimed
    /\ probe.clock.val > probe.trigger_time.val
    /\ probe.reports = EmptyPool
    /\ probe.response.ok /\ ~probe.response.val.succeeded

\* C5: with 100 entries or more in the pool exec_solver_step returns triggered
\* whether or not the trigger time is reached; before the trigger time with
\* fewer entries it returns not triggered, with the seconds that remain until
\* the trigger time.
PollBatchCap ==
    PollTimed
    => /\ Cardinality(DOMAIN probe.reports) >= 100
          => (probe.response.ok /\ probe.response.val.succeeded)
       /\ (probe.clock.val < probe.trigger_time.val
           /\ Cardinality(DOMAIN probe.reports) < 100)
          => /\ probe.response.ok
             /\ ~probe.response.val.succeeded
             /\ probe.response.val.remaining_secs
                   = probe.trigger_time.val - probe.clock.val

\* A call before the trigger time on a pool of exactly 100 entries, which
\* triggered.
PolledFullBeforeTrigger ==
    /\ PollTimed
    /\ probe.clock.val < probe.trigger_time.val
    /\ Cardinality(DOMAIN probe.reports) = 100
    /\ probe.response.ok /\ probe.response.val.succeeded

----------------------------------------------------------------------------
(* POST /report on its own: the requests and the pool, with no executor *)

InitLedger == Init /\ program = "cleanapp_scheduler"

NextLedger == \E json \in Jsons : reports_seen < MaxIngests /\ PostReport(json)

SpecLedger == InitLedger /\ [][NextLedger]_vars

\* C7: after any sequence of ingests with no clear in between, the amount
\* stored for each account is the sum of the amounts ingested for it (an
\* absent account is created), whatever the order of the ingests.
IngestAccumulates ==
    /\ DOMAIN reports_pool = DOMAIN ingested
    /\ \A a \in DOMAIN ingested : reports_pool[a] = ingested[a]

\* C8: two distinct schedule keys never merge: the amount stored for an
\* account holds what was ingested under one schedule key only.
ScheduleKeysNeverMerge ==
    \A a \in DOMAIN reports_pool : Cardinality(merged_keys[a]) <= 1

----------------------------------------------------------------------------
(* The listeners with every event of their alphabets: admission, solver   *)
(* construction and the executors up to their polls (the pool stays empty *)
(* and the price stays above the order's, so no executor commits)         *)

NextListen ==
    \/ Listener_stream(TRUE)
    \/ \E ev \in CallPushedEvents : LaminatorListener_listen(ev)
    \/ \E e \in Executors : CleanAppTask_start(e)
    \/ \E e \in Executors : CleanAppExecutor_step(e, Ok(now))
    \/ \E ev \in UserObjectivePushedEvents : CallBreakerListener_listen(ev)
    \/ \E e \in Executors : LimitOrderTask_start(e)
    \/ \E e \in Executors : LimitOrderExecutor_loop(e)
    \/ \E e \in Executors : LimitOrderExecutor_step(e, Ok(120))
    \/ Tick

SpecListen == Init /\ [][NextListen]_vars

\* The fields a solver cannot be constructed without.
RequiredKeys == {"give_token", "take_token", "buy_price", "slippage", "time_limit"}

\* The event a task was spawned with misses a required field: the data of a
\* scheduled-batch event has no CRON entry, the data of an order misses one
\* of the five keys.
MissesRequiredField(ev) ==
    IF program = "limit_order"
    THEN ~(RequiredKeys \subseteq
             {ev.mev_time_data[i].key : i \in 1..Len(ev.mev_time_data)})
    ELSE \A i \in 1..Len(ev) : ev[i].name # "CRON"

\* C9: for an event that misses a required field, solver construction returns
\* a ParamError and no executor runs for the event: the task ends with the
\* error, without a poll, a commit or a status record.
MissingFieldIsParamError ==
    \A e \in Executors :
        (pc[e] \notin {"free", "spawned"} /\ MissesRequiredField(event[e]))
        => /\ ~made[e].ok
           /\ made[e].kind = "ParamError"
           /\ pc[e] = "dropped"
           /\ sent[e] = <<>>
           /\ commits[e] = 0

----------------------------------------------------------------------------
(* One scheduled-batch executor from its first poll to its end: the pool  *)
(* is filled, the trigger time is reached, nothing is posted, no other    *)
(* executor runs, the chain accepts the transaction and answers status 1  *)

\* The pools of one request per account
FilledPools ==
    UNION {[accts -> Amounts] : accts \in (SUBSET Accounts) \ {{}}}

InitE2E ==
    /\ program = "cleanapp_scheduler"
    /\ now \in 0..MaxTime
    /\ reports_pool \in FilledPools
    /\ guard = NoOne
    /\ params = ScheduledEvent.data
    /\ reports_seen = Cardinality(DOMAIN reports_pool)
    /\ pc = [e \in Executors |-> IF e = 1 THEN "poll" ELSE "free"]
    /\ event = [e \in Executors |-> IF e = 1 THEN ScheduledEvent.data ELSE <<>>]
    /\ made = [e \in Executors |-> IF e = 1 THEN Ok("solver") ELSE NotMade]
    /\ \E trigger_time \in 0..now :
          solver = [e \in Executors |->
                      IF e = 1 THEN [schedule_string |-> CronEverySecond,
                                     trigger_time |-> Ok(trigger_time)]
                      ELSE NoSolver]
    /\ payload = [e \in Executors |-> EmptyPool]
    /\ receipt = [e \in Executors |-> NoReceipt]
    /\ sent = [e \in Executors |-> <<>>]
    /\ commits = [e \in Executors |-> 0]
    /\ started = [e \in Executors |-> 0]
    /\ last_message = [e \in Executors |-> ""]
    /\ last_transaction_status = [e \in Executors |-> "NotExecuted"]
    /\ ingested = reports_pool
    /\ merged_keys = [a \in DOMAIN reports_pool |-> {"K1"}]
    /\ disbursed = EmptyPool
    /\ reports_lock = NoOne
    /\ query = NoQuery
    /\ probe = NoProbe
    /\ receiver = "prompt"
    /\ stats_channel = <<>>
    /\ stats_map = NoStats
    /\ resume = [e \in Executors |-> NoResume]
    /\ calls = [e \in Executors |-> <<>>]
    /\ stream = Stream("open", 1, "none", 0)
    /\ heard = {ScheduledEvent}
    /\ reports_stats = NoReportStats

NextE2E ==
    \/ CleanAppExecutor_step(1, Ok(now))
    \/ CleanAppSolver_final_exec_read(1)
    \/ final_exec_lock(1)
    \/ CleanAppSolver_final_exec_send(1, TRUE)
    \/ CleanAppSolver_final_exec_receipt(1, Receipt("status", 1))
    \/ Tick

\* The runtime runs a task that is ready and the chain answers.
SpecE2E == InitE2E /\ [][NextE2E]_vars /\ WF_vars(NextE2E)

\* The first poll triggered, final_exec is called at most once, and at the
\* end of the executor it was called once, the last record is Succeeded and
\* the pool is empty.
E2EOutcome ==
    /\ sent[1] # <<>> => /\ sent[1][1].status = "Running"
                         /\ sent[1][1].transaction_status = "TransactionPending"
    /\ commits[1] <= 1
    /\ pc[1] = "done" => /\ commits[1] = 1
                         /\ sent[1][Len(sent[1])].status = "Succeeded"
                         /\ reports_pool = EmptyPool

\* C10: an executor started with a valid CRON, a non-empty pool, the trigger
\* time reached, no other executor, no request and a receipt of status 1:
\* its first poll triggers, it commits exactly once, its last record has
\* status Succeeded and the pool is empty when it terminates, and it does
\* terminate.
EndToEndScheduledBatch == [](E2EOutcome) /\ <>(pc[1] = "done")

\* The executor ended after one poll and one commit.
E2ECompleted ==
    /\ pc[1] = "done"
    /\ receipt[1] = Receipt("status", 1)
    /\ Len(sent[1]) = 2
    /\ commits[1] = 1
    /\ reports_pool = EmptyPool

----------------------------------------------------------------------------
(* One executor of either binary from its spawn to its end, over a longer *)
(* clock, with every answer of the clock, of the price query and of the    *)
(* chain, and with requests to the pool                                    *)

\* An order that lasts `secs` seconds
OrderLasting(secs) ==
    UserObjectivePushed(LIMIT_ORDER_APP_ID,
        [OrderData EXCEPT ![5].value = AbiValue("duration", secs)])

InitRun ==
    /\ program \in {"cleanapp_scheduler", "limit_order"}
    /\ now = 0
    /\ reports_pool = EmptyPool
    /\ guard = NoOne
    /\ params = IF program = "cleanapp_scheduler" THEN ScheduledEvent.data ELSE <<>>
    /\ reports_seen = 0
    /\ pc = [e \in Executors |-> IF e = 1 THEN "spawned" ELSE "free"]
    /\ \E secs \in 1..MaxRunTime :
          event = [e \in Executors |->
                     IF e # 1 THEN <<>>
                     ELSE IF program = "cleanapp_scheduler" THEN ScheduledEvent.data
                     ELSE OrderLasting(secs)]
    /\ made = [e \in Executors |-> NotMade]
    /\ solver = [e \in Executors |-> NoSolver]
    /\ payload = [e \in Executors |-> EmptyPool]
    /\ receipt = [e \in Executors |-> NoReceipt]
    /\ sent = [e \in Executors |-> <<>>]
    /\ commits = [e \in Executors |-> 0]
    /\ started = [e \in Executors |-> 0]
    /\ last_message = [e \in Executors |-> ""]
    /\ last_transaction_status = [e \in Executors |-> "NotExecuted"]
    /\ ingested = EmptyPool
    /\ merged_keys = EmptyPool
    /\ disbursed = EmptyPool
    /\ reports_lock = NoOne
    /\ query = NoQuery
    /\ probe = NoProbe
    /\ receiver = "prompt"
    /\ stats_channel = <<>>
    /\ stats_map = NoStats
    /\ resume = [e \in Executors |-> NoResume]
    /\ calls = [e \in Executors |-> <<>>]
    /\ stream = Stream("open", 1, "none", 0)
    /\ heard = IF program = "cleanapp_scheduler" THEN {ScheduledEvent}
              ELSE {event[1]}
    /\ reports_stats = NoReportStats

NextRun ==
    \/ CleanAppTask_start(1)
    \/ \E clock \in {Ok(now), Err("SystemTimeError", "")} : CleanAppExecutor_step(1, clock)
    \/ CleanAppSolver_final_exec_read(1)
    \/ final_exec_lock(1)
    \/ \E sent_ok \in BOOLEAN : CleanAppSolver_final_exec_send(1, sent_ok)
    \/ \E r \in Receipts : CleanAppSolver_final_exec_receipt(1, r)
    \/ reports_seen < MaxReports /\ PostReport(BatchReport)
    \/ TickWithin(MaxRunTime)
    \/ LimitOrderTask_start(1)
    \/ LimitOrderExecutor_loop(1)
    \/ \E price \in PriceResults : LimitOrderExecutor_step(1, price)
    \/ \E sent_ok \in BOOLEAN : LimitOrderSolver_final_exec_send(1, sent_ok)
    \/ \E r \in Receipts : LimitOrderSolver_final_exec_receipt(1, r)

SpecRun == InitRun /\ [][NextRun]_vars

\* The i-th call of executor e is a poll that read a price.
PricedPoll(e, i) == calls[e][i].op = "exec_solver_step" /\ calls[e][i].saw.ok

\* C11: with no step error, the records of sub-status StepPending a
\* price-triggered executor emits before the poll that triggers are as many
\* as the polls that saw a price above buy_price before the first poll that
\* saw a price at or below it; that poll is followed by one record of
\* sub-status TransactionPending and one call of final_exec.
StepPendingBeforeTrigger ==
    \A e \in Executors : \A i \in 1..Len(calls[e]) :
        (/\ program = "limit_order"
         /\ PricedPoll(e, i)
         /\ calls[e][i].saw.val <= solver[e].buy_price.val
         /\ \A j \in 1..(i - 1) :
               PricedPoll(e, j) /\ calls[e][j].saw.val > solver[e].buy_price.val)
        => /\ Len(sent[e]) >= i
           /\ \A j \in 1..(i - 1) :
                 /\ sent[e][j].status = "Running"
                 /\ sent[e][j].transaction_status = "StepPending"
           /\ sent[e][i].status = "Running"
           /\ sent[e][i].transaction_status = "TransactionPending"
           /\ Len(calls[e]) > i
           /\ calls[e][i + 1].op = "final_exec"

\* Prices 120, 120 and 95 against a buy_price of 100: two polls that did not
\* trigger, then the one that did, and the first call of final_exec.
OrderTriggeredOnThirdPoll ==
    /\ program = "limit_order"
    /\ Len(calls[1]) >= 4
    /\ solver[1].buy_price = Ok(100)
    /\ calls[1][1].saw = Ok(120)
    /\ calls[1][2].saw = Ok(120)
    /\ calls[1][3].saw = Ok(95)
    /\ calls[1][4].op = "final_exec"
    /\ commits[1] = 1
    /\ Len(sent[1]) = 3

----------------------------------------------------------------------------
(* The calls of an executor on its solver *)

\* C12: over its whole life a scheduled-batch executor calls final_exec at
\* most once, only right after a poll of its own that returned triggered, and
\* it makes no call on its solver after that one.
OneCommitPerScheduledExecutor ==
    \A e \in Executors :
        program = "cleanapp_scheduler"
        => /\ commits[e] <= 1
           /\ \A i \in 1..Len(calls[e]) :
                 calls[e][i].op = "final_exec"
                 => /\ i = Len(calls[e])
                    /\ i > 1
                    /\ calls[e][i - 1].op = "exec_solver_step"
                    /\ calls[e][i - 1].triggered
                    /\ commits[e] = 1
           /\ (calls[e] # <<>> /\ calls[e][Len(calls[e])].op # "final_exec")
              => commits[e] = 0

\* A scheduled-batch executor ended after a poll that did not trigger, a poll
\* that did, and a commit that failed on a receipt of status 0; the pool still
\* holds what it could not pay.
ScheduledCommitFailedOnce ==
    \E e \in Executors :
        /\ program = "cleanapp_scheduler"
        /\ pc[e] = "done"
        /\ receipt[e] = Receipt("status", 0)
        /\ Len(calls[e]) = 3
        /\ ~calls[e][1].triggered
        /\ reports_pool # EmptyPool

\* C13: once an executor has sent a record whose status is Succeeded, Failed
\* or Timeout, it sends no further record and makes no further call on its
\* solver: the record is its last and the task has ended.
TerminalRecordEndsTask ==
    \A e \in Executors : \A i \in 1..Len(sent[e]) :
        sent[e][i].status \in {"Succeeded", "Failed", "Timeout"}
        => /\ i = Len(sent[e])
           /\ pc[e] = "done"

\* The last call of executor e was a poll made with the deadline of its
\* solver passed (the trigger time of the schedule, the time limit of the
\* order), and the poll did not trigger.
PolledPastDeadline(e) ==
    /\ calls[e] # <<>>
    /\ calls[e][Len(calls[e])].op = "exec_solver_step"
    /\ calls[e][Len(calls[e])].late
    /\ ~calls[e][Len(calls[e])].triggered

\* C14: every executor has a bounded life.  An executor whose condition is
\* not satisfied once its deadline has passed goes to Timeout and stops
\* polling: none is about to poll again after a poll past its deadline that
\* did not trigger.
DeadlineEndsPolling ==
    \A e \in Executors : ~(pc[e] = "poll" /\ PolledPastDeadline(e))

----------------------------------------------------------------------------
(* The guard outside the commit *)

\* C15: the transaction guard is held only during the commit.  Whoever holds
\* it is an executor between the lock of final_exec and its return; it is
\* released on every way out of final_exec, so no executor that polls, sleeps,
\* waits for the guard or has ended holds it, and with no executor inside
\* final_exec the guard is free.
GuardHeldOnlyInCommit ==
    /\ guard # NoOne => guard \in Executors /\ InCriticalSection(guard)
    /\ \A e \in Executors :
          pc[e] \in {"free", "spawned", "dropped", "poll", "loop", "sleep",
                     "fe_read", "fe_lock", "done", "send_stats"}
          => guard # e

\* An executor has ended on a send that failed, and another one holds the
\* guard it released.
GuardPassedOnAfterSendError ==
    \E e1, e2 \in Executors :
        /\ e1 # e2
        /\ pc[e1] = "done"
        /\ commits[e1] = 1
        /\ receipt[e1] = NoReceipt
        /\ sent[e1][Len(sent[e1])].transaction_status = "TransactionFailed"
        /\ guard = e2
        /\ pc[e2] = "fe_send"

----------------------------------------------------------------------------
(* The reports pool under requests of every kind, polls and commits *)

\* The requests one client of the schedule may post.
ClientReports == {json \in Jsons : json.account = 1 /\ json.schedule_key = "K1"}

\* Two executors of the schedule are spawned, the pool is empty.
InitPool ==
    /\ program = "cleanapp_scheduler"
    /\ now = 0
    /\ reports_pool = EmptyPool
    /\ guard = NoOne
    /\ params = ScheduledEvent.data
    /\ reports_seen = 0
    /\ pc = [e \in Executors |-> IF e \in {1, 2} THEN "spawned" ELSE "free"]
    /\ event = [e \in Executors |-> IF e \in {1, 2} THEN ScheduledEvent.data ELSE <<>>]
    /\ made = [e \in Executors |-> NotMade]
    /\ solver = [e \in Executors |-> NoSolver]
    /\ payload = [e \in Executors |-> EmptyPool]
    /\ receipt = [e \in Executors |-> NoReceipt]
    /\ sent = [e \in Executors |-> <<>>]
    /\ commits = [e \in Executors |-> 0]
    /\ started = [e \in Executors |-> 0]
    /\ last_message = [e \in Executors |-> ""]
    /\ last_transaction_status = [e \in Executors |-> "NotExecuted"]
    /\ ingested = EmptyPool
    /\ merged_keys = EmptyPool
    /\ disbursed = EmptyPool
    /\ reports_lock = NoOne
    /\ query = NoQuery
    /\ probe = NoProbe
    /\ receiver = "prompt"
    /\ stats_channel = <<>>
    /\ stats_map = NoStats
    /\ resume = [e \in Executors |-> NoResume]
    /\ calls = [e \in Executors |-> <<>>]
    /\ stream = Stream("open", 2, "none", 0)
    /\ heard = {ScheduledEvent}
    /\ reports_stats = NoReportStats

NextPool ==
    \/ \E e \in {1, 2} : CleanAppTask_start(e)
    \/ \E e \in {1, 2} : CleanAppExecutor_step(e, Ok(now))
    \/ \E e \in {1, 2} : CleanAppSolver_final_exec_read(e)
    \/ \E e \in {1, 2} : final_exec_lock(e)
    \/ \E e \in {1, 2} : \E sent_ok \in BOOLEAN :
          CleanAppSolver_final_exec_send(e, sent_ok)
    \/ \E e \in {1, 2} : \E r \in Receipts : CleanAppSolver_final_exec_receipt(e, r)
    \/ \E json \in ClientReports : reports_seen < MaxReports /\ PostReport(json)
    \/ GetReportsStats
    \/ Tick

SpecPool == InitPool /\ [][NextPool]_vars

\* Some entry of the pool is removed or lowered in this step.
PoolLowered ==
    \E a \in DOMAIN reports_pool :
        \/ a \notin DOMAIN reports_pool'
        \/ reports_pool'[a] < reports_pool[a]

\* C16: the reports pool only grows outside a successful commit.  The one
\* step that removes an entry or lowers an amount is the end of a
\* scheduled-batch final_exec whose receipt has a status above 0; a poll, a
\* POST /report, a GET /reportstats and a failed commit leave every entry at
\* least as high as it was.
PoolLoweredOnlyByCommit ==
    [][PoolLowered => \E e \in Executors : CommitSucceeds(e)]_vars

\* A commit failed on a send error and left the pool as it was, a request
\* then raised the entry it could not pay, and the stats query answered with
\* the raised total.
PoolGrewPastFailedCommit ==
    \E e \in Executors :
        /\ program = "cleanapp_scheduler"
        /\ pc[e] = "done"
        /\ commits[e] = 1
        /\ receipt[e] = NoReceipt
        /\ payload[e] = EmptyPool
        /\ 1 \in DOMAIN reports_pool
        /\ reports_pool[1] = 3
        /\ reports_stats = Ok([accounts |-> 1, total_amount |-> 3])

----------------------------------------------------------------------------
(* The stats map behind the stats channel *)

\* Two executors are spawned and the task of run_stats_receive runs when the
\* runtime gets to it: the records wait in the channel.
InitStats ==
    /\ program \in {"cleanapp_scheduler", "limit_order"}
    /\ now = 0
    /\ reports_pool = EmptyPool
    /\ guard = NoOne
    /\ params = IF program = "cleanapp_scheduler" THEN ScheduledEvent.data ELSE <<>>
    /\ reports_seen = 0
    /\ pc = [e \in Executors |-> IF e \in {1, 2} THEN "spawned" ELSE "free"]
    /\ event = [e \in Executors |->
                  IF e \notin {1, 2} THEN <<>>
                  ELSE IF program = "cleanapp_scheduler" THEN ScheduledEvent.data
                  ELSE OrderEvent]
    /\ made = [e \in Executors |-> NotMade]
    /\ solver = [e \in Executors |-> NoSolver]
    /\ payload = [e \in Executors |-> EmptyPool]
    /\ receipt = [e \in Executors |-> NoReceipt]
    /\ sent = [e \in Executors |-> <<>>]
    /\ commits = [e \in Executors |-> 0]
    /\ started = [e \in Executors |-> 0]
    /\ last_message = [e \in Executors |-> ""]
    /\ last_transaction_status = [e \in Executors |-> "NotExecuted"]
    /\ ingested = EmptyPool
    /\ merged_keys = EmptyPool
    /\ disbursed = EmptyPool
    /\ reports_lock = NoOne
    /\ query = NoQuery
    /\ probe = NoProbe
    /\ receiver = "lagging"
    /\ stats_channel = <<>>
    /\ stats_map = NoStats
    /\ resume = [e \in Executors |-> NoResume]
    /\ calls = [e \in Executors |-> <<>>]
    /\ stream = Stream("open", 2, "none", 0)
    /\ heard = IF program = "cleanapp_scheduler" THEN {ScheduledEvent}
              ELSE {OrderEvent}
    /\ reports_stats = NoReportStats

NextStats ==
    \/ run_stats_receive
    \/ \E e \in {1, 2} : CleanAppTask_start(e)
    \/ \E e \in {1, 2} : CleanAppExecutor_step(e, Ok(now))
    \/ \E e \in {1, 2} : CleanAppSolver_final_exec_read(e)
    \/ \E e \in {1, 2} : final_exec_lock(e)
    \/ \E e \in {1, 2} : \E sent_ok \in BOOLEAN :
          CleanAppSolver_final_exec_send(e, sent_ok)
    \/ \E e \in {1, 2} : \E r \in Receipts : CleanAppSolver_final_exec_receipt(e, r)
    \/ reports_seen < MaxReports /\ PostReport(BatchReport)
    \/ Tick
    \/ \E e \in {1, 2} : LimitOrderTask_start(e)
    \/ \E e \in {1, 2} : LimitOrderExecutor_loop(e)
    \/ \E e \in {1, 2} : \E price \in Prices : LimitOrderExecutor_step(e, price)
    \/ \E e \in {1, 2} : \E sent_ok \in BOOLEAN :
          LimitOrderSolver_final_exec_send(e, sent_ok)
    \/ \E e \in {1, 2} : \E r \in Receipts : LimitOrderSolver_final_exec_receipt(e, r)

SpecStats == InitStats /\ [][NextStats]_vars

\* The records of executor e that wait in the channel.
RECURSIVE Undelivered(_, _)
Undelivered(channel, e) ==
    IF channel = <<>> THEN 0
    ELSE (IF Head(channel).id = e THEN 1 ELSE 0) + Undelivered(Tail(channel), e)

\* The records of executor e that run_stats_receive has received.
Received(e) == Len(sent[e]) - Undelivered(stats_channel, e)

\* C17: the stats map keeps the latest record of each executor.  It has an
\* entry for exactly the executors of which a record was received, the entry
\* is the record the executor sent last among those received (the records of
\* one executor arrive in the order it sent them), and no entry is ever
\* removed.
StatsMapKeepsLatest ==
    /\ [](\A e \in Executors :
            /\ e \in DOMAIN stats_map <=> Received(e) > 0
            /\ Received(e) > 0 => stats_map[e] = sent[e][Received(e)])
    /\ [][DOMAIN stats_map \subseteq DOMAIN stats_map']_vars

\* The map holds an entry of each of two executors; the entry of one was
\* written over by a later record that differs from its first, and a still
\* later one waits in the channel.
StatsMapOverwritten ==
    \E e, f \in Executors :
        /\ e # f
        /\ {e, f} \subseteq DOMAIN stats_map
        /\ Received(e) = 2
        /\ Len(sent[e]) = 3
        /\ stats_map[e] = sent[e][2]
        /\ sent[e][1] # sent[e][2]

----------------------------------------------------------------------------
(* A full stats channel *)

\* The record of the poll a scheduled-batch executor with trigger time 1
\* makes at second t while the pool is empty.
IdlePollStats(t) ==
    LET res == exec_solver_step(Ok(1), Ok(t), EmptyPool)
    IN  TimerExecutorStats("Running", "StepPending", res.val.message,
                           res.val.remaining_secs)

\* The second of the poll that fills the channel: one poll a second from 0 on.
BacklogTime == STATS_CHANNEL_CAPACITY - 1

\* An executor of the schedule has polled an empty pool once a second and the
\* task of run_stats_receive has not run yet: the channel holds its capacity
\* of records, and the executor sleeps after the poll that filled it.
InitBacklog ==
    /\ program = "cleanapp_scheduler"
    /\ now = BacklogTime
    /\ reports_pool = EmptyPool
    /\ guard = NoOne
    /\ params = ScheduledEvent.data
    /\ reports_seen = 0
    /\ pc = [e \in Executors |-> IF e = 1 THEN "sleep" ELSE "free"]
    /\ event = [e \in Executors |-> IF e = 1 THEN ScheduledEvent.data ELSE <<>>]
    /\ made = [e \in Executors |-> IF e = 1 THEN Ok("solver") ELSE NotMade]
    /\ solver = [e \in Executors |->
                   IF e = 1 THEN CleanAppSchedulerSolver_new(ScheduledEvent.data, 0).val
                   ELSE NoSolver]
    /\ payload = [e \in Executors |-> EmptyPool]
    /\ receipt = [e \in Executors |-> NoReceipt]
    /\ sent = [e \in Executors |->
                 IF e = 1 THEN [i \in 1..STATS_CHANNEL_CAPACITY |-> IdlePollStats(i - 1)]
                 ELSE <<>>]
    /\ commits = [e \in Executors |-> 0]
    /\ started = [e \in Executors |-> 0]
    /\ last_message = [e \in Executors |-> ""]
    /\ last_transaction_status = [e \in Executors |-> "NotExecuted"]
    /\ ingested = EmptyPool
    /\ merged_keys = EmptyPool
    /\ disbursed = EmptyPool
    /\ reports_lock = NoOne
    /\ query = NoQuery
    /\ probe = NoProbe
    /\ receiver = "lagging"
    /\ stats_channel = [i \in 1..STATS_CHANNEL_CAPACITY |->
                          [id |-> 1, stats |-> IdlePollStats(i - 1)]]
    /\ stats_map = NoStats
    /\ resume = [e \in Executors |-> NoResume]
    /\ calls = [e \in Executors |->
                  IF e = 1
                  THEN [i \in 1..STATS_CHANNEL_CAPACITY |->
                          Call("exec_solver_step", Ok(i - 1), FALSE, i - 1 >= 1)]
                  ELSE <<>>]
    /\ stream = Stream("open", 1, "none", 0)
    /\ heard = {ScheduledEvent}
    /\ reports_stats = NoReportStats

NextBacklog ==
    \/ TickWithin(BacklogTime + MaxTime)
    \/ CleanAppExecutor_step(1, Ok(now))
    \/ send_stats_resume(1)
    \/ run_stats_receive
    \/ reports_seen < MaxReports /\ PostReport(BatchReport)
    \/ CleanAppSolver_final_exec_read(1)
    \/ final_exec_lock(1)
    \/ \E sent_ok \in BOOLEAN : CleanAppSolver_final_exec_send(1, sent_ok)
    \/ \E r \in Receipts : CleanAppSolver_final_exec_receipt(1, r)

SpecBacklog == InitBacklog /\ [][NextBacklog]_vars

\* C18: sending a record never holds an executor up.  Whatever the channel
\* holds, an executor that sends a record goes on to its next step; none
\* waits in send_stats.
SendStatsNeverWaits ==
    \A e \in Executors : pc[e] # "send_stats"

----------------------------------------------------------------------------
(* The listener and its event stream *)

\* An event of another contract user: its first call object is not KITN's.
ForeignCall ==
    CallPushed(<<"proxy", KITN, "proxy">>, <<SolverData("CRON", CronEverySecond)>>)

\* An event of an app with no solver.
ForeignObjective == UserObjectivePushed("OTHER.APP", OrderData)

\* listen of either listener with every answer of the node: the stream opens
\* or not, it delivers events of the app and of others, it delivers an error
\* item; and the spawned tasks start.  Nothing runs once fatal! ended the
\* process.
NextStream ==
    \/ \E opened \in BOOLEAN : Listener_stream(opened)
    \/ Listener_stream_error
    \/ Chain_emits_unheard
    \/ \E ev \in {ScheduledEvent, ForeignCall} : LaminatorListener_listen(ev)
    \/ \E ev \in {OrderEvent, ForeignObjective} : CallBreakerListener_listen(ev)
    \/ \E e \in Executors : stream.state # "fatal" /\ CleanAppTask_start(e)
    \/ \E e \in Executors : stream.state # "fatal" /\ LimitOrderTask_start(e)

SpecStream == Init /\ [][NextStream]_vars

\* C19: an error of the event stream ends the process.  After an error item
\* the listener does not go on: it has no stream open again.
StreamErrorIsFatal ==
    stream.ended_by = "error" => stream.state # "open"

\* C20: the listener is handed every event the contract emits after it
\* subscribed, also past the 10th event of a subscription: no event is
\* emitted past a listener whose stream ended with its 10th item.
NoEventPastTheTenth ==
    ~(stream.ended_by = "take" /\ stream.missed > 0)

----------------------------------------------------------------------------
(* Errors of the solver in the executor *)

\* C21: an error of exec_solver_step is transient.  The record the executor
\* sends for it has status Running with sub-status StepFailed (the Timeout
\* record of the limit order executor repeats the sub-status of the last
\* poll), and the executor sleeps and polls again.
StepErrorKeepsRunning ==
    \A e \in Executors : \A i \in 1..Len(sent[e]) :
        sent[e][i].transaction_status = "StepFailed"
        => sent[e][i].status \in {"Running", "Timeout"}

\* C22: an executor whose solver has an invalid deadline when execute starts
\* ends at once as Failed: it has made no call on its solver, and the last
\* record it sent has status Failed.
InvalidDeadlineEndsFailed ==
    \A e \in Executors :
        (/\ program = "cleanapp_scheduler"
         /\ made[e].ok
         /\ ~schedule_time(solver[e]).ok)
        => /\ pc[e] = "done"
           /\ calls[e] = <<>>
           /\ sent[e] # <<>>
           /\ sent[e][Len(sent[e])].status = "Failed"

\* Some record of executor e has this sub-status and carries this message.
Recorded(e, transaction_status, message) ==
    \E i \in 1..Len(sent[e]) :
        /\ sent[e][i].transaction_status = transaction_status
        /\ sent[e][i].message = message

\* C23: every error a solver returns to its executor becomes a record that
\* carries it: the error of schedule_time at the start of execute, the error
\* of a poll, and the error of final_exec.
SolverErrorsAreRecorded ==
    \A e \in Executors :
        /\ (program = "cleanapp_scheduler" /\ made[e].ok
               /\ ~schedule_time(solver[e]).ok)
           => \E i \in 1..Len(sent[e]) :
                 sent[e][i].message = SolverError_to_string(schedule_time(solver[e]))
        /\ \A i \in 1..Len(calls[e]) :
              (calls[e][i].op = "exec_solver_step" /\ ~calls[e][i].saw.ok)
              => \E j \in 1..Len(sent[e]) : sent[e][j].transaction_status = "StepFailed"
        /\ receipt[e].kind = "error"
           => Recorded(e, "TransactionFailed", "Execution error, Final execution error")

\* C24: a commit of the scheduled batch that fails is final.  When final_exec
\* ends on a send error, a receipt error, no receipt, a receipt with no
\* status or with status 0, the executor sends a record of status Failed with
\* sub-status TransactionFailed and ends; that record is its last, and it
\* makes no call on its solver after that final_exec.
ScheduledCommitFailureIsFinal ==
    /\ [][\A e \in Executors :
            CommitFails(e)
            => /\ Len(sent'[e]) = Len(sent[e]) + 1
               /\ sent'[e][Len(sent'[e])].status = "Failed"
               /\ sent'[e][Len(sent'[e])].transaction_status = "TransactionFailed"
               /\ calls'[e] = calls[e]]_vars
    /\ [](\A e \in Executors : \A i \in 1..Len(sent[e]) :
            (program = "cleanapp_scheduler"
             /\ sent[e][i].transaction_status = "TransactionFailed")
            => /\ i = Len(sent[e])
               /\ pc[e] = "done"
               /\ calls[e][Len(calls[e])].op = "final_exec")

\* A scheduled-batch executor ended on a receipt-wait error, and a second has
\* passed since: it is still where it ended, and the pool keeps the batch.
ScheduledCommitErrorStaysEnded ==
    /\ program = "cleanapp_scheduler"
    /\ pc[1] = "done"
    /\ receipt[1] = Receipt("error", 0)
    /\ sent[1][Len(sent[1])].message = "Execution error, Final execution error"
    /\ sent[1][Len(sent[1]) - 1].message = "Triggered at 1"
    /\ now = 3
    /\ reports_pool # EmptyPool

----------------------------------------------------------------------------
(* The limit order executor after a commit, and at its deadline *)

\* Executor e of the limit order binary ends final_exec in this step without
\* a receipt of status above 0.
OrderCommitFails(e) ==
    /\ program = "limit_order"
    /\ InCriticalSection(e)
    /\ pc'[e] \notin {pc[e], "fe_receipt"}
    /\ ~(pc[e] = "fe_receipt" /\ receipt'[e].kind = "status" /\ receipt'[e].status > 0)

\* C25: a commit of the limit order executor that fails is retried.  After a
\* final_exec that did not succeed the executor sends a record of status
\* Running and sleeps a tick; it calls final_exec again only right after a
\* later poll that triggered; and it ends only with a record of status
\* Succeeded or Timeout.
OrderCommitFailureIsRetried ==
    /\ [][\A e \in Executors :
            OrderCommitFails(e)
            => /\ pc'[e] = "sleep"
               /\ Len(sent'[e]) = Len(sent[e]) + 1
               /\ sent'[e][Len(sent'[e])].status = "Running"
               /\ calls'[e] = calls[e]]_vars
    /\ [](\A e \in Executors :
            program = "limit_order"
            => /\ \A i \in 1..Len(calls[e]) :
                     calls[e][i].op = "final_exec"
                     => /\ i > 1
                        /\ calls[e][i - 1].op = "exec_solver_step"
                        /\ calls[e][i - 1].triggered
               /\ (pc[e] = "done" /\ sent[e] # <<>>)
                  => sent[e][Len(sent[e])].status \in {"Succeeded", "Timeout"})

\* An order was committed twice: the first final_exec ended on an error, the
\* executor polled again a second later, and the second final_exec succeeded.
OrderCommittedAtSecondAttempt ==
    /\ program = "limit_order"
    /\ pc[1] = "done"
    /\ commits[1] = 2
    /\ Len(calls[1]) = 4
    /\ Len(sent[1]) = 4
    /\ sent[1][2].transaction_status = "TransactionFailed"
    /\ sent[1][2].status = "Running"
    /\ sent[1][4].status = "Succeeded"

\* C26: the Timeout record of the limit order executor repeats the record
\* before it: it carries the message and the sub-status of the last record
\* the executor sent, also when that record reported an error.
TimeoutCarriesLastMessage ==
    \A e \in Executors : \A i \in 2..Len(sent[e]) :
        sent[e][i].status = "Timeout"
        => /\ sent[e][i].message = sent[e][i - 1].message
           /\ sent[e][i].transaction_status = sent[e][i - 1].transaction_status

----------------------------------------------------------------------------
(* The listener of the scheduled batch and its cached parameters *)

InitSticky == Init /\ program = "cleanapp_scheduler"

NextSticky ==
    \/ Listener_stream(TRUE)
    \/ \E ev \in CallPushedEvents : LaminatorListener_listen(ev)

SpecSticky == InitSticky /\ [][NextSticky]_vars

\* An executor is spawned in this step.
Spawns == \E e \in Executors : pc[e] = "free" /\ pc'[e] = "spawned"

\* C27: the cached parameters of the scheduled-batch listener.  For every
\* event that passes the filter: a payload with a non-empty CRON value
\* replaces the cache, any other event leaves the cache as it was; an empty
\* payload is processed with the cached parameters in its place; and an
\* executor is spawned, with the data the event is processed with, exactly
\* when the CRON value of that data is non-empty.
StickyParams ==
    [][\A ev \in CallPushedEvents :
          (is_cleanapp_event(ev) /\ LaminatorListener_listen(ev))
          => LET own == CronOf(ev.data, 1, "")
                 used == IF ev.data = <<>> THEN params ELSE ev.data
             IN  /\ params' = IF own # "" THEN ev.data ELSE params
                 /\ Spawns <=> CronOf(used, 1, "") # ""
                 /\ \A e \in Executors :
                       (pc[e] = "free" /\ pc'[e] = "spawned") => event'[e] = used]_vars

\* After an event that cached its CRON payload and spawned an executor, an
\* event with an empty payload spawned a second one with the cached payload.
SpawnedFromCache ==
    /\ program = "cleanapp_scheduler"
    /\ stream.taken = 2
    /\ \E ev \in heard : is_cleanapp_event(ev) /\ ev.data = <<>>
    /\ params = <<SolverData("CRON", CronEverySecond)>>
    /\ pc[2] = "spawned"
    /\ event[2] = params

----------------------------------------------------------------------------
(* Admission: the listeners with every event of their alphabets and the   *)
(* spawned tasks up to the entry of execute                               *)

NextAdmit ==
    \/ Listener_stream(TRUE)
    \/ \E ev \in CallPushedEvents : LaminatorListener_listen(ev)
    \/ \E ev \in UserObjectivePushedEvents : CallBreakerListener_listen(ev)
    \/ \E e \in Executors : CleanAppTask_start(e)
    \/ \E e \in Executors : LimitOrderTask_start(e)

SpecAdmit == Init /\ [][NextAdmit]_vars

\* The admission filter as the deployment states it: three call objects with
\* the first addressed to the scheduler contract; an app id that is a key of
\* the table of solver parameters.
AdmittedCall(ev) == Len(ev.call_objs) = 3 /\ ev.call_objs[1] = KITN
AdmittedObjective(ev) == ev.app_id \in {LIMIT_ORDER_APP_ID}

\* The executors spawned in this step.
SpawnedNow == {e \in Executors : pc[e] = "free" /\ pc'[e] = "spawned"}

\* execute of the task of slot e was entered.
Ran(e) == pc[e] \notin {"free", "spawned", "dropped", "panicked"}

\* C28: admission and spawning.  An event that fails the admission filter
\* spawns no task and leaves every executor as it was; an event that passes
\* it spawns at most one task, and exactly one when the listener constructs a
\* solver for it (every admitted order; a scheduled-batch event whose CRON
\* value is not empty); a spawned task enters execute exactly when its solver
\* was constructed, and a task that entered execute never starts again.
AdmissionAndSpawning ==
    [][/\ \A ev \in CallPushedEvents :
             LaminatorListener_listen(ev)
             => /\ ~AdmittedCall(ev) => (SpawnedNow = {} /\ UNCHANGED <<pc, event, made>>)
                /\ Cardinality(SpawnedNow) <= 1
                /\ (AdmittedCall(ev)
                    /\ CronOf(IF ev.data = <<>> THEN params ELSE ev.data, 1, "") # "")
                   => Cardinality(SpawnedNow) = 1
       /\ \A ev \in UserObjectivePushedEvents :
             CallBreakerListener_listen(ev)
             => /\ ~AdmittedObjective(ev)
                   => (SpawnedNow = {} /\ UNCHANGED <<pc, event, made>>)
                /\ Cardinality(SpawnedNow) = IF AdmittedObjective(ev) THEN 1 ELSE 0
                /\ \A e \in SpawnedNow : event'[e] = ev
       /\ SpawnedNow # {} => heard' # {}
       /\ \A e \in Executors :
             /\ (pc[e] = "spawned" /\ pc'[e] # "spawned")
                => /\ made'[e].ok <=> pc'[e] \in {"poll", "loop", "done"}
                   /\ ~made'[e].ok => pc'[e] \in {"dropped", "panicked"}
                   /\ sent'[e] = <<>> /\ calls'[e] = <<>>
             /\ Ran(e) => pc'[e] \notin {"free", "spawned", "dropped", "panicked"}
             /\ pc[e] \in {"dropped", "panicked"} => pc'[e] = pc[e]]_vars

\* The first event passed the filter and its executor entered execute; the
\* second, whose first call object is not the scheduler's, spawned nothing.
RejectedAfterAdmitted ==
    /\ program = "cleanapp_scheduler"
    /\ stream.taken = 2
    /\ heard = {ForeignCall}
    /\ pc[1] = "poll"
    /\ made[1].ok
    /\ pc[2] = "free"

\* C29: a solver construction that fails yields a parameter or selector
\* error and nothing else: the task ends with that error, no executor runs
\* for the event (no poll, no commit, no status record), and the listener
\* keeps its stream.
ConstructionFailureIsAnError ==
    \A e \in Executors :
        (pc[e] \notin {"free", "spawned"} /\ made[e] # NotMade /\ ~made[e].ok)
        => /\ made[e].kind \in {"ParamError", "MisleadingSelector"}
           /\ pc[e] = "dropped"
           /\ sent[e] = <<>>
           /\ calls[e] = <<>>
           /\ commits[e] = 0
           /\ stream.state # "fatal"

----------------------------------------------------------------------------
(* exec_solver_step of the limit order on its own: one call per step, over *)
(* every order price and every answer of the price query up to MaxPrice   *)

OrderPrices == 0..MaxPrice
PriceAnswers == {Ok(p) : p \in OrderPrices} \cup {Err("ContractError", "call reverted")}

\* The solver LimitOrderSolver::new constructs for an order with buy_price b
SolverBuyingAt(b) ==
    LET order == UserObjectivePushed(LIMIT_ORDER_APP_ID,
                    [OrderData EXCEPT ![3].value = AbiValue("uint", b)])
    IN  LimitOrderSolver_new(order).val

\* One call of exec_solver_step, with its solver, the answer of
\* get_price_of_weth and what it returned
Call_limit_order_exec_solver_step(s, price) ==
    /\ probe' = [buy_price |-> s.buy_price, price |-> price,
                 response |-> LimitOrderSolver_exec_solver_step(s, price)]
    /\ UNCHANGED <<config, now, guard, listener, pc, event, made, solver, payload,
                   receipt, emitted, called, locals, ledger, reports_stats>>

InitPrice == Init /\ program = "limit_order"

NextPrice ==
    \E b \in OrderPrices : \E price \in PriceAnswers :
        Call_limit_order_exec_solver_step(SolverBuyingAt(b), price)

SpecPrice == InitPrice /\ [][NextPrice]_vars

\* C30: exec_solver_step of the limit order returns triggered if and only if
\* the price the chain answered is at or below the order's buy_price, a price
\* equal to buy_price included; when the price query fails it returns an
\* ExecError, neither a triggered nor a not-triggered response.
TriggeredAtOrBelowBuyPrice ==
    probe # NoProbe
    => IF probe.price.ok
       THEN /\ probe.response.ok
            /\ probe.response.val.succeeded <=> probe.price.val <= probe.buy_price.val
       ELSE /\ ~probe.response.ok
            /\ probe.response.kind = "ExecError"

\* A call that was answered a price equal to buy_price, and triggered.
PolledAtBuyPrice ==
    /\ probe # NoProbe
    /\ probe.price.ok
    /\ probe.price.val = probe.buy_price.val
    /\ probe.response.ok /\ probe.response.val.succeeded

----------------------------------------------------------------------------
(* The deadline of a constructed scheduled-batch solver *)

\* C40: a scheduled-batch solver that CleanAppSchedulerSolver::new returned
\* has a valid deadline: schedule_time() of every constructed solver is Ok,
\* also for a CRON expression that parses and has no upcoming occurrence.
ConstructedSolverHasDeadline ==
    \A e \in Executors :
        (program = "cleanapp_scheduler" /\ made[e].ok)
        => schedule_time(solver[e]).ok

----------------------------------------------------------------------------
(* POST /report and GET /reportstats on their own: amounts up to and past *)
(* the largest U256                                                       *)

NextAmounts ==
    \/ \E json \in Jsons : reports_seen < MaxIngests /\ PostReport(json)
    \/ GetReportsStats

SpecAmounts == InitLedger /\ [][NextAmounts]_vars

\* The sum, as an integer, of the amounts of the accounts accts
RECURSIVE ExactSum(_, _)
ExactSum(amounts, accts) ==
    IF accts = {} THEN 0
    ELSE LET a == CHOOSE x \in accts : TRUE
         IN  amounts[a] + ExactSum(amounts, accts \ {a})

\* C34: the amounts of the ledger behave as unbounded integers.  After any
\* sequence of ingests the amount stored for an account is the exact sum of
\* the amounts ingested for it, also past the largest U256, and every
\* report-stats query answers, with the exact sum of all of them as total.
LedgerAmountsAreExact ==
    /\ [](\A a \in DOMAIN ingested :
             a \in DOMAIN reports_pool /\ reports_pool[a] = ingested[a])
    /\ [][reports_stats' # reports_stats
          => /\ reports_stats'.ok
             /\ reports_stats'.val.total_amount = ExactSum(ingested, DOMAIN ingested)]_vars

----------------------------------------------------------------------------
(* The records of the limit order executor: remaining time and outcome *)

\* C39: every record of the limit order executor with status Running carries
\* remaining = time_limit - elapsed, so that remaining is at most time_limit
\* and elapsed + remaining = time_limit, also when it is sent after a commit
\* that returned past the deadline; every other record carries remaining = 0.
RemainingIsTimeLeft ==
    program = "limit_order"
    => \A e \in Executors : \A i \in 1..Len(sent[e]) :
          IF sent[e][i].status = "Running"
          THEN /\ sent[e][i].remaining <= time_limit(solver[e]).val
               /\ sent[e][i].elapsed + sent[e][i].remaining = time_limit(solver[e]).val
          ELSE sent[e][i].remaining = 0

\* The records of executor e that end it: Succeeded or Timeout
Outcomes(e) == {i \in 1..Len(sent[e]) : sent[e][i].status \in {"Succeeded", "Timeout"}}

\* C38: a limit order executor that passed the validation of its deadline
\* sends at most one record of status Succeeded or Timeout, nothing after
\* it, and exactly one by the time it ends: never both a Succeeded and a
\* Timeout record, also when a commit that started before the deadline
\* returns after it.
ExclusiveOutcome ==
    program = "limit_order"
    => \A e \in Executors :
          (made[e].ok /\ time_limit(solver[e]).ok)
          => /\ Cardinality(Outcomes(e)) <= 1
             /\ \A i \in Outcomes(e) : i = Len(sent[e]) /\ pc[e] = "done"
             /\ pc[e] = "done" => Cardinality(Outcomes(e)) = 1

\* The order lasted one second; its commit returned at the second second with
\* a receipt of status 1, and the executor ended as Succeeded.
SucceededPastDeadline ==
    /\ program = "limit_order"
    /\ pc[1] = "done"
    /\ time_limit(solver[1]).val = 1
    /\ receipt[1] = Receipt("status", 1)
    /\ sent[1][Len(sent[1])].status = "Succeeded"
    /\ sent[1][Len(sent[1])].elapsed = 2
    /\ sent[1][Len(sent[1]) - 1].elapsed < 1

----------------------------------------------------------------------------
(* What the commits of several executors pay out of one pool *)

\* C35: at most one disbursement.  With two executors on one pool and one
\* guard, the amounts paid out for an account by the commits whose receipt
\* has a status above 0 never exceed the amounts ingested for it: no commit
\* pays entries that an earlier commit paid and cleared.
PaidAtMostOnce ==
    \A a \in DOMAIN disbursed :
        /\ a \in DOMAIN ingested
        /\ disbursed[a] <= ingested[a]

----------------------------------------------------------------------------
(* The mutex of the reports pool: two executors, POST /report and a       *)
(* GET /reportstats that runs step by step beside them                    *)

NextLocks ==
    \/ \E e \in {1, 2} : CleanAppTask_start(e)
    \/ \E e \in {1, 2} : CleanAppExecutor_step(e, Ok(now))
    \/ \E e \in {1, 2} : CleanAppSolver_final_exec_read(e)
    \/ \E e \in {1, 2} : final_exec_lock(e)
    \/ \E e \in {1, 2} : \E sent_ok \in BOOLEAN :
          CleanAppSolver_final_exec_send(e, sent_ok)
    \/ \E e \in {1, 2} : \E r \in Receipts : CleanAppSolver_final_exec_receipt(e, r)
    \/ \E json \in ClientReports : reports_seen < MaxReports /\ PostReport(json)
    \/ GetReportsStats_lock
    \/ GetReportsStats_fold
    \/ GetReportsStats_return
    \/ Tick

SpecLocks == InitPool /\ [][NextLocks]_vars

\* C31: the operations on the reports pool are atomic with respect to one
\* another.  While the lock of the pool is held nothing is ingested or
\* cleared and no executor gets past its poll or the read of its payload, and
\* the answer of a report-stats query is the number
\* of accounts and the total of one pool, the pool as it is when the query
\* returns, which no operation changed since the query took the lock.
LedgerLinearizable ==
    [][/\ reports_lock # NoOne
          => /\ reports_pool' = reports_pool
             /\ \A e \in Executors : pc[e] \in {"poll", "fe_read"} => pc'[e] = pc[e]
       /\ (query.pc = "folded" /\ query'.pc = "idle")
          => reports_stats' = get_reports_stats(reports_pool)]_vars

\* A query holds the lock of the pool with its total computed, an executor is
\* at a poll past its trigger time and a request is yet to be served.
QueryHoldsOthersOff ==
    /\ query.pc = "folded"
    /\ query.total = Ok(1)
    /\ reports_lock = StatsHandler
    /\ pc[1] = "poll"
    /\ now >= solver[1].trigger_time.val
    /\ reports_seen < MaxReports

\* C33: the lock discipline of an executor.  An executor that sleeps a tick,
\* waits for the guard, submits its transaction, waits for the receipt or for
\* room in the stats channel, or has ended, does not hold the lock of the
\* reports pool; across the submission and the wait for the receipt it holds
\* the transaction guard and nothing else, and asleep it holds no lock.
LedgerLockNotHeldAcrossAwait ==
    \A e \in Executors :
        /\ pc[e] \in {"sleep", "fe_lock", "fe_send", "fe_receipt", "send_stats", "done"}
           => reports_lock # e
        /\ pc[e] \in {"fe_send", "fe_receipt"} => guard = e
        /\ pc[e] = "sleep" => guard # e

\* An executor waits for its receipt with the guard while a query holds the
\* lock of the pool and the other executor sleeps.
QueryDuringCommit ==
    /\ pc[1] = "fe_receipt"
    /\ guard = 1
    /\ reports_lock = StatsHandler
    /\ pc[2] = "sleep"

\* The parties that are in the middle of something: the executors between
\* their start and their end, and a query that holds the lock of the pool.
ActiveParties ==
    {e \in Executors : pc[e] \in {"poll", "sleep", "fe_read", "fe_lock", "fe_send",
                                  "fe_receipt", "send_stats"}}
    \cup (IF query.pc # "idle" THEN {StatsHandler} ELSE {})

\* Party p cannot go on before a lock is released: it waits for the guard, or
\* what it does next takes the lock of the pool, which is held.
BlockedOnLock(p) ==
    /\ p \in Executors
    /\ \/ pc[p] = "fe_lock" /\ guard # NoOne
       \/ pc[p] \in {"poll", "fe_read", "fe_receipt"} /\ reports_lock # NoOne

\* C36: no deadlock on the guard and the lock of the pool.  Whoever holds one
\* of the two is in the middle of its operation; the holder of the lock of
\* the pool waits for no lock, and the holder of the guard waits at most for
\* the lock of the pool; so the parties are never all blocked on locks and the
\* guard-then-pool acquisition of the commit closes no cycle of waits.
NoLockDeadlock ==
    /\ reports_lock # NoOne
       => (reports_lock \in ActiveParties /\ ~BlockedOnLock(reports_lock))
    /\ guard # NoOne
       => /\ guard \in ActiveParties
          /\ pc[guard] \in {"fe_send", "fe_receipt"}
          /\ reports_lock # guard
    /\ (\E p \in ActiveParties : BlockedOnLock(p))
       => \E q \in ActiveParties : ~BlockedOnLock(q)

\* The holder of the guard waits for its receipt and cannot clear the pool
\* before the query that holds its lock returns; the other executor waits for
\* the guard.
GuardHolderWaitsForQuery ==
    /\ pc[1] = "fe_receipt"
    /\ guard = 1
    /\ pc[2] = "fe_lock"
    /\ reports_lock = StatsHandler
    /\ query.pc = "folded"

----------------------------------------------------------------------------
(* Two executors at the guard, under fair scheduling and a chain that     *)
(* answers every transaction                                              *)

InitGuard ==
    /\ program \in {"cleanapp_scheduler", "limit_order"}
    /\ now = 0
    /\ reports_pool = EmptyPool
    /\ guard = NoOne
    /\ params = IF program = "cleanapp_scheduler" THEN ScheduledEvent.data ELSE <<>>
    /\ reports_seen = 0
    /\ pc = [e \in Executors |-> IF e \in {1, 2} THEN "spawned" ELSE "free"]
    /\ event = [e \in Executors |->
                  IF e \notin {1, 2} THEN <<>>
                  ELSE IF program = "cleanapp_scheduler" THEN ScheduledEvent.data
                  ELSE OrderEvent]
    /\ made = [e \in Executors |-> NotMade]
    /\ solver = [e \in Executors |-> NoSolver]
    /\ payload = [e \in Executors |-> EmptyPool]
    /\ receipt = [e \in Executors |-> NoReceipt]
    /\ sent = [e \in Executors |-> <<>>]
    /\ commits = [e \in Executors |-> 0]
    /\ started = [e \in Executors |-> 0]
    /\ last_message = [e \in Executors |-> ""]
    /\ last_transaction_status = [e \in Executors |-> "NotExecuted"]
    /\ ingested = EmptyPool
    /\ merged_keys = EmptyPool
    /\ disbursed = EmptyPool
    /\ reports_lock = NoOne
    /\ query = NoQuery
    /\ probe = NoProbe
    /\ receiver = "prompt"
    /\ stats_channel = <<>>
    /\ stats_map = NoStats
    /\ resume = [e \in Executors |-> NoResume]
    /\ calls = [e \in Executors |-> <<>>]
    /\ stream = Stream("open", 2, "none", 0)
    /\ heard = IF program = "cleanapp_scheduler" THEN {ScheduledEvent}
              ELSE {OrderEvent}
    /\ reports_stats = NoReportStats

NextGuard ==
    \/ \E e \in {1, 2} : CleanAppTask_start(e)
    \/ \E e \in {1, 2} : CleanAppExecutor_step(e, Ok(now))
    \/ \E e \in {1, 2} : CleanAppSolver_final_exec_read(e)
    \/ \E e \in {1, 2} : final_exec_lock(e)
    \/ \E e \in {1, 2} : \E sent_ok \in BOOLEAN :
          CleanAppSolver_final_exec_send(e, sent_ok)
    \/ \E e \in {1, 2} : \E r \in Receipts : CleanAppSolver_final_exec_receipt(e, r)
    \/ reports_seen < MaxReports /\ PostReport(BatchReport)
    \/ Tick
    \/ \E e \in {1, 2} : LimitOrderTask_start(e)
    \/ \E e \in {1, 2} : LimitOrderExecutor_loop(e)
    \/ \E e \in {1, 2} : \E price \in Prices : LimitOrderExecutor_step(e, price)
    \/ \E e \in {1, 2} : \E sent_ok \in BOOLEAN :
          LimitOrderSolver_final_exec_send(e, sent_ok)
    \/ \E e \in {1, 2} : \E r \in Receipts : LimitOrderSolver_final_exec_receipt(e, r)

\* The chain answers every send and every wait for a receipt; the queue of
\* the tokio mutex is first in, first out, so an executor that waits for the
\* guard gets it once it was free often enough.
FairGuard ==
    \A e \in {1, 2} :
        /\ SF_vars(final_exec_lock(e))
        /\ WF_vars(\E sent_ok \in BOOLEAN : CleanAppSolver_final_exec_send(e, sent_ok))
        /\ WF_vars(\E r \in Receipts : CleanAppSolver_final_exec_receipt(e, r))
        /\ WF_vars(\E sent_ok \in BOOLEAN : LimitOrderSolver_final_exec_send(e, sent_ok))
        /\ WF_vars(\E r \in Receipts : LimitOrderSolver_final_exec_receipt(e, r))

SpecGuard == InitGuard /\ [][NextGuard]_vars /\ FairGuard

\* C37: liveness of the guard.  With a chain that answers every transaction
\* and fair scheduling, an executor that waits for the transaction guard gets
\* it, and an executor that holds it ends its commit and releases it.
GuardLiveness ==
    \A e \in {1, 2} :
        /\ (pc[e] = "fe_lock") ~> (guard = e)
        /\ (guard = e) ~> (guard # e /\ pc[e] \notin {"fe_lock", "fe_send", "fe_receipt"})

\* The second limit order executor has polled, was triggered and waits for
\* the guard while the first waits for its receipt.
WaitsBehindCommit ==
    /\ program = "limit_order"
    /\ pc[1] = "fe_receipt"
    /\ guard = 1
    /\ pc[2] = "fe_lock"
    /\ commits[2] = 1

----------------------------------------------------------------------------
(* stats.rs, get_stats_json: the answer to GET /stats                     *)

\* enum Status
Statuses == {"Running", "Succeeded", "Failed", "Timeout"}
\* creation_time of a record, the time its executor was made
CreationTimes == 0 .. 1
\* the fields of TimerExecutorStats that get_stats_json reads, and the id
StatsFields == [creation_time : CreationTimes, status : Statuses]
\* HashMap<Uuid, TimerExecutorStats>: a record is stored under its id
StatsMaps ==
    UNION {{[k \in ids |-> [id |-> k, creation_time |-> f[k].creation_time,
                            status |-> f[k].status]] : f \in [ids -> StatsFields]} :
           ids \in SUBSET (1 .. MaxRecords)}

\* `.into_values()`: the values of the map in one of the orders a HashMap
\* may iterate in
IntoValues(map) ==
    LET n == Cardinality(DOMAIN map)
    IN  {[i \in 1 .. n |-> map[o[i]]] :
            o \in {f \in [1 .. n -> DOMAIN map] :
                      \A i, j \in 1 .. n : f[i] = f[j] => i = j}}

\* `.filter(|el| filter.is_empty() || filter.contains(&el.status))`
RECURSIVE FilterByStatus(_, _)
FilterByStatus(values, filter) ==
    IF values = <<>> THEN <<>>
    ELSE LET rest == FilterByStatus(Tail(values), filter)
         IN  IF filter = {} \/ Head(values).status \in filter
             THEN <<Head(values)>> \o rest
             ELSE rest

\* one record put into a sorted vector, behind the records that compare equal
RECURSIVE InsertByCreationTime(_, _)
InsertByCreationTime(sorted, el) ==
    IF sorted = <<>> THEN <<el>>
    ELSE IF Head(sorted).creation_time <= el.creation_time
         THEN <<Head(sorted)>> \o InsertByCreationTime(Tail(sorted), el)
         ELSE <<el>> \o sorted

\* `filtered.sort_by(|el1, el2| el1.creation_time.cmp(&el2.creation_time))`,
\* a stable sort
RECURSIVE SortByCreationTime(_)
SortByCreationTime(values) ==
    IF values = <<>> THEN <<>>
    ELSE InsertByCreationTime(SortByCreationTime(SubSeq(values, 1, Len(values) - 1)),
                              values[Len(values)])

\* get_stats_json that answers with the filtered records as the map gave them
get_stats_json_unsorted(values, filter) ==
    FilterByStatus(values, filter)

\* get_stats_json of the binaries that take a filter
get_stats_json(values, filter) ==
    SortByCreationTime(FilterByStatus(values, filter))

\* get_stats_json of the cleanapp scheduler, which takes no filter
CleanApp_get_stats_json(values) ==
    SortByCreationTime(values)

\* GET /stats with a filter
GetStats(values, filter) ==
    /\ program # "cleanapp_scheduler"
    /\ probe' = [filter |-> filter, response |-> get_stats_json(values, filter)]
    /\ UNCHANGED <<config, now, guard, listener, pc, event, made, solver, payload,
                   receipt, emitted, called, locals, ledger, reports_stats>>

\* GET /stats/cleanapp
CleanApp_GetStats(values) ==
    /\ program = "cleanapp_scheduler"
    /\ probe' = [filter |-> {}, response |-> CleanApp_get_stats_json(values)]
    /\ UNCHANGED <<config, now, guard, listener, pc, event, made, solver, payload,
                   receipt, emitted, called, locals, ledger, reports_stats>>

InitQuery ==
    /\ program \in {"cleanapp_scheduler", "limit_order"}
    /\ stats_map \in StatsMaps
    /\ now = 0
    /\ reports_pool = EmptyPool
    /\ guard = NoOne
    /\ params = <<>>
    /\ reports_seen = 0
    /\ pc = [e \in Executors |-> "free"]
    /\ event = [e \in Executors |-> <<>>]
    /\ made = [e \in Executors |-> NotMade]
    /\ solver = [e \in Executors |-> NoSolver]
    /\ payload = [e \in Executors |-> EmptyPool]
    /\ receipt = [e \in Executors |-> NoReceipt]
    /\ sent = [e \in Executors |-> <<>>]
    /\ commits = [e \in Executors |-> 0]
    /\ started = [e \in Executors |-> 0]
    /\ last_message = [e \in Executors |-> ""]
    /\ last_transaction_status = [e \in Executors |-> "NotExecuted"]
    /\ ingested = EmptyPool
    /\ merged_keys = EmptyPool
    /\ disbursed = EmptyPool
    /\ reports_lock = NoOne
    /\ query = NoQuery
    /\ probe = NoProbe
    /\ receiver = "prompt"
    /\ stats_channel = <<>>
    /\ resume = [e \in Executors |-> NoResume]
    /\ calls = [e \in Executors |-> <<>>]
    /\ stream = Stream("open", 0, "none", 0)
    /\ heard = {}
    /\ reports_stats = NoReportStats

\* One query is followed: the map does not change under it, and a second
\* query is a first query of the same map.
NextQuery ==
    \/ /\ probe = NoProbe
       /\ \E values \in IntoValues(stats_map) : \E filter \in SUBSET Statuses :
             GetStats(values, filter)
    \/ /\ probe = NoProbe
       /\ \E values \in IntoValues(stats_map) : CleanApp_GetStats(values)

SpecQuery == InitQuery /\ [][NextQuery]_vars

\* the records of the map that the filter of the last query lets through
Selected ==
    {stats_map[k] : k \in {i \in DOMAIN stats_map :
                              probe.filter = {} \/ stats_map[i].status \in probe.filter}}

\* C32: the answer of a stats query holds exactly the records of the stats map
\* whose status is in the filter (all of them with an empty or no filter),
\* each once, by non-decreasing creation time.
StatsQueryResult ==
    probe # NoProbe =>
        /\ {probe.response[i] : i \in 1 .. Len(probe.response)} = Selected
        /\ Len(probe.response) = Cardinality(Selected)
        /\ \A i, j \in 1 .. Len(probe.response) :
              i <= j => probe.response[i].creation_time <= probe.response[j].creation_time

\* A query with a filter that left a record out and answered with two records
\* that the sort had to swap.
FilteredAndReordered ==
    /\ probe # NoProbe
    /\ probe.filter # {}
    /\ Len(probe.response) = 2
    /\ Cardinality(DOMAIN stats_map) = 3
    /\ probe.response[1].id > probe.response[2].id
    /\ probe.response[1].creation_time < probe.response[2].creation_time

====
